---- MODULE Spec2Model ----
(***************************************************************************)
(* IntelliChem2MQTT (ESP32): the frame codec (protocol/message.c), the     *)
(* ring-buffer resynchronizer (protocol/buffer.c), the status decoder      *)
(* (protocol/parser.c), the command encoder (protocol/commands.c), the bus *)
(* poller (serial/serial_task.c) and the publisher/consumer                *)
(* (mqtt/mqtt_task.c).                                                     *)
(*                                                                         *)
(* Bytes are integers 0..255.  A C array is a sequence; C index i is       *)
(* sequence index i+1.                                                     *)
(***************************************************************************)
EXTENDS Integers, Sequences, FiniteSets, TLC

VARIABLES
    s_rx_buffer,            \* serial_task.c: static packet_buffer_t s_rx_buffer
    packet,                 \* out-parameter of the last buffer_get_packet (bytes [0, *packet_len_out))
    got_packet,             \* return value of the last buffer_get_packet
    n_adds,                 \* number of buffer_add_bytes / uart reads so far (bounded input)
    sc,                     \* scenario of a pure-function check.  Resync: garbage, frame,
                            \* position, frames yielded.  Codec: the input drawn (a frame or
                            \* a settings record), position, what the codec returned
    s_state_queue,          \* main.c: queue of intellichem_state_t, poller -> publisher
    s_command_queue,        \* main.c: queue of serial_command_t, broker handler -> poller
    s_last_state,           \* serial_task.c: static intellichem_state_t s_last_state
    s_current_settings,     \* serial_task.c: static intellichem_state_t s_current_settings
    s_polls_sent,           \* serial_task.c statistics
    s_responses_received,
    s_errors,
    serial_pc,              \* position of serial_task in its loop
    tx_wire,                \* frames written to the bus by send_packet, in order
    s_mqtt_connected,       \* mqtt_task.c
    s_discovery_sent,
    s_states_published,
    s_reconnections,
    pub_log,                \* calls on the broker client, in order
    n_msgs,                 \* number of broker messages / API calls so far (bounded input)
    n_events,               \* number of other outside events so far: poll timer expiries,
                            \* line errors, disconnects, failed publishes, stop requests
    hist,                   \* history: what the queues accepted and delivered, the
                            \* before/after of the last frame, message and command handled,
                            \* the result of the last write to the bus, whether a status
                            \* was decoded since the last poll tick (quiet) and within the
                            \* last full poll interval (stale), the last call of
                            \* serial_task_force_poll (last_poll)
    s_running,              \* serial_task.c: static volatile bool s_running (the stop flag)
    s_state_mutex,          \* serial_task.c: the handle s_state_mutex and the semaphore
                            \* object it points to: [handle, alive, holder]
    s_tx_mode,              \* rs485.c: static bool s_tx_mode (DE/RE pin driven high)
    api,                    \* a task inside serial_task_get_last_state: position, the
                            \* record copied out, the return value
    stop_pc,                \* position of the task inside serial_task_stop
    mqtt_pc,                \* position of mqtt_task in its loop and in its cleanup
    cb,                     \* the broker client task inside mqtt_event_handler
    halted                  \* tasks the scheduler never runs again

bufVars == <<s_rx_buffer, packet, got_packet, n_adds>>
queueVars == <<s_state_queue, s_command_queue>>
serialVars == <<s_last_state, s_current_settings, s_polls_sent, s_responses_received,
                s_errors, serial_pc, tx_wire>>
mqttVars == <<s_mqtt_connected, s_discovery_sent, s_states_published, s_reconnections,
              pub_log>>
inputVars == <<n_msgs, n_events>>
taskVars == <<s_running, s_state_mutex, s_tx_mode, api, stop_pc, mqtt_pc, cb, halted>>
sysVars == <<queueVars, serialVars, mqttVars, inputVars, hist, taskVars>>

vars == <<s_rx_buffer, packet, got_packet, n_adds, sc, s_state_queue, s_command_queue,
          s_last_state, s_current_settings, s_polls_sent, s_responses_received, s_errors,
          serial_pc, tx_wire, s_mqtt_connected, s_discovery_sent, s_states_published,
          s_reconnections, pub_log, n_msgs, n_events, hist, s_running, s_state_mutex,
          s_tx_mode, api, stop_pc, mqtt_pc, cb, halted>>

----------------------------------------------------------------------------
(* protocol/constants.h, protocol/buffer.h, protocol/message.h *)

PREAMBLE_BYTE_1 == 255
PREAMBLE_BYTE_2 == 0
PREAMBLE_BYTE_3 == 255
HEADER_START_BYTE == 165
HEADER_SUB_BYTE == 0
PREAMBLE_LENGTH == 3
HEADER_LENGTH == 6
CHECKSUM_LENGTH == 2
MIN_PACKET_SIZE == 11
MAX_PACKET_SIZE == 64
PACKET_BUFFER_CAPACITY == 512
OVERFLOW_KEEP == 64

PKT_OFFSET_START_BYTE == 3
PKT_OFFSET_DEST == 5
PKT_OFFSET_SRC == 6
PKT_OFFSET_ACTION == 7
PKT_OFFSET_LENGTH == 8
PKT_OFFSET_PAYLOAD == 9

INTELLICHEM_ADDRESS_MIN == 144
INTELLICHEM_ADDRESS_MAX == 158
CONTROLLER_ADDRESS == 16
ACTION_STATUS_REQUEST == 210
ACTION_STATUS_RESPONSE == 18
ACTION_CONFIG_COMMAND == 146
ACTION_OCP_BROADCAST == 147
STATUS_PAYLOAD_LENGTH == 41
CONFIG_PAYLOAD_LENGTH == 21

U8 == 256
U16 == 65536

\* C array read: element at 0-based index i
At(s, i) == s[i + 1]

\* n copies of byte b
Rep(b, n) == [i \in 1..n |-> b]

----------------------------------------------------------------------------
(* protocol/message.c *)

\* BE16(buf, offset)
BE16(buf, offset) == (At(buf, offset) * 256 + At(buf, offset + 1)) % U16

\* the sum of the bytes s[from..to], by halves
RECURSIVE SumRange(_, _, _)
SumRange(s, from, to) ==
    IF from > to THEN 0
    ELSE IF from = to THEN s[from]
    ELSE SumRange(s, from, (from + to) \div 2) + SumRange(s, (from + to) \div 2 + 1, to)

\* the sum the loop of message_calculate_checksum accumulates, before it is cut to 16 bits
SumBytes(s, n) == SumRange(s, 1, n)

\* message_calculate_checksum with a sum of 8 bits
message_calculate_checksum_u8(header_and_payload, len) ==
    SumBytes(header_and_payload, len) % U8

\* uint16_t sum of the first len bytes of header_and_payload
message_calculate_checksum(header_and_payload, len) ==
    SumBytes(header_and_payload, len) % U16

message_total_length(payload_len) == 3 + 6 + payload_len + 2

\* message_build with a buffer of buf_size bytes: the frame, or <<>> when it returns 0
message_build(buf_size, dest, src, action, payload) ==
    LET payload_len == Len(payload)
        required == PREAMBLE_LENGTH + HEADER_LENGTH + payload_len + CHECKSUM_LENGTH
        hdr == <<HEADER_START_BYTE, HEADER_SUB_BYTE, dest, src, action, payload_len>>
        checksum == message_calculate_checksum(hdr \o payload, HEADER_LENGTH + payload_len)
    IN  IF buf_size < required THEN <<>>
        ELSE <<PREAMBLE_BYTE_1, PREAMBLE_BYTE_2, PREAMBLE_BYTE_3>> \o hdr \o payload
             \o <<(checksum \div 256) % 256, checksum % 256>>

\* message_validate_checksum with the comparison of the two checksums dropped
message_validate_checksum_unchecked(pkt) ==
    /\ Len(pkt) >= MIN_PACKET_SIZE
    /\ Len(pkt) >= message_total_length(At(pkt, PKT_OFFSET_LENGTH))

\* the checksum test of message_validate_checksum: the stored checksum is read
\* from the last two bytes of the len bytes handed in
message_validate_checksum(pkt) ==
    LET len == Len(pkt) IN
    IF len < MIN_PACKET_SIZE THEN FALSE
    ELSE LET payload_len == At(pkt, PKT_OFFSET_LENGTH)
             expected_len == message_total_length(payload_len)
         IN  IF len < expected_len THEN FALSE
             ELSE LET data_len == HEADER_LENGTH + payload_len
                      calculated == message_calculate_checksum(
                                        SubSeq(pkt, PREAMBLE_LENGTH + 1, Len(pkt)), data_len)
                      received == BE16(pkt, len - 2)
                  IN  calculated = received

message_validate_structure(pkt) ==
    IF Len(pkt) < MIN_PACKET_SIZE THEN FALSE
    ELSE /\ At(pkt, 0) = PREAMBLE_BYTE_1
         /\ At(pkt, 1) = PREAMBLE_BYTE_2
         /\ At(pkt, 2) = PREAMBLE_BYTE_3
         /\ At(pkt, PKT_OFFSET_START_BYTE) = HEADER_START_BYTE

message_get_action(pkt) == At(pkt, PKT_OFFSET_ACTION)
\* message_get_source reading the destination offset
message_get_source_at_dest(pkt) == At(pkt, PKT_OFFSET_DEST)
message_get_source(pkt) == At(pkt, PKT_OFFSET_SRC)
message_get_dest(pkt) == At(pkt, PKT_OFFSET_DEST)
message_get_payload_len(pkt) == At(pkt, PKT_OFFSET_LENGTH)
\* the payload_len bytes that start at &packet[PKT_OFFSET_PAYLOAD]
message_get_payload(pkt) ==
    SubSeq(pkt, PKT_OFFSET_PAYLOAD + 1, PKT_OFFSET_PAYLOAD + message_get_payload_len(pkt))

----------------------------------------------------------------------------
(* protocol/buffer.c *)

\* buffer_stats_t: uint32_t counters (2^32 is beyond every run considered here,
\* so the increments are written without the wrap)
buffer_stats_init ==
    [packets_received |-> 0, bytes_received |-> 0, invalid_checksums |-> 0,
     buffer_overflows |-> 0, preamble_syncs |-> 0]

\* buffer_init: data zeroed, positions and statistics reset
buffer_init ==
    [data |-> Rep(0, PACKET_BUFFER_CAPACITY),
     head |-> 0, tail |-> 0, count |-> 0, stats |-> buffer_stats_init]

buffer_peek_at(buf, offset) == At(buf.data, (buf.tail + offset) % PACKET_BUFFER_CAPACITY)

\* the len bytes from offset on, in ring order: one run, or two when they wrap around
buffer_copy_out(buf, offset, len) ==
    LET cap == PACKET_BUFFER_CAPACITY
        start == (buf.tail + offset) % cap
    IN  IF start + len <= cap
        THEN SubSeq(buf.data, start + 1, start + len)
        ELSE SubSeq(buf.data, start + 1, cap) \o SubSeq(buf.data, 1, len - (cap - start))

\* buffer_discard with the read position advanced and the count left alone
buffer_discard_keep_count(buf, cnt) ==
    LET c == IF cnt > buf.count THEN buf.count ELSE cnt
    IN  [buf EXCEPT !.tail = (buf.tail + c) % PACKET_BUFFER_CAPACITY]

\* buffer_discard: at most count bytes leave the front of the ring
buffer_discard(buf, cnt) ==
    LET c == IF cnt > buf.count THEN buf.count ELSE cnt
    IN  [buf EXCEPT !.tail = (buf.tail + c) % PACKET_BUFFER_CAPACITY,
                    !.count = buf.count - c]

PreambleAt(buf, i) ==
    /\ buffer_peek_at(buf, i) = PREAMBLE_BYTE_1
    /\ buffer_peek_at(buf, i + 1) = PREAMBLE_BYTE_2
    /\ buffer_peek_at(buf, i + 2) = PREAMBLE_BYTE_3

\* buffer_find_preamble with the scan started one position late
buffer_find_preamble_skipfirst(buf, start_offset) ==
    IF buf.count < start_offset + PREAMBLE_LENGTH THEN -1
    ELSE LET hits == {i \in (start_offset + 1)..(buf.count - PREAMBLE_LENGTH) : PreambleAt(buf, i)}
         IN  IF hits = {} THEN -1
             ELSE CHOOSE i \in hits : \A j \in hits : i <= j

\* offset of the first preamble at or after start_offset, or -1
buffer_find_preamble(buf, start_offset) ==
    IF buf.count < start_offset + PREAMBLE_LENGTH THEN -1
    ELSE LET hits == {i \in start_offset..(buf.count - PREAMBLE_LENGTH) : PreambleAt(buf, i)}
         IN  IF hits = {} THEN -1
             ELSE CHOOSE i \in hits : \A j \in hits : i <= j

\* the byte-copy loop of buffer_add_bytes (lines 101-110) run over all of bytes:
\* byte k (1-based) is stored at (head + k - 1) mod capacity, a later byte
\* overwriting an earlier one at the same place, so the last capacity bytes
\* are the ones that stay, in one run or in two when they wrap around; count
\* saturates at the capacity and tail advances once for every byte stored
\* while full
AddLoop(buf, bytes) ==
    LET len == Len(bytes)
        cap == PACKET_BUFFER_CAPACITY
        room == cap - buf.count
        over == IF len > room THEN len - room ELSE 0
        kept == IF len > cap THEN SubSeq(bytes, len - cap + 1, len) ELSE bytes
        n == Len(kept)
        start == (buf.head + len - n) % cap
        k1 == cap - start
    IN  [buf EXCEPT
            !.data = IF start + n <= cap
                     THEN SubSeq(buf.data, 1, start) \o kept
                          \o SubSeq(buf.data, start + n + 1, cap)
                     ELSE SubSeq(kept, k1 + 1, n) \o SubSeq(buf.data, n - k1 + 1, start)
                          \o SubSeq(kept, 1, k1),
            !.head = (buf.head + len) % cap,
            !.count = IF len > room THEN cap ELSE buf.count + len,
            !.tail = (buf.tail + over) % cap]

\* buffer_add_bytes without the discard of lines 93-96
buffer_add_bytes_nodrop(buf, bytes) ==
    LET len == Len(bytes) IN
    IF len = 0 THEN buf
    ELSE LET b0 == [buf EXCEPT !.stats.bytes_received = @ + len]
             b1 == IF b0.count + len > PACKET_BUFFER_CAPACITY
                   THEN [b0 EXCEPT !.stats.buffer_overflows = @ + 1]
                   ELSE b0
         IN  AddLoop(b1, bytes)

buffer_add_bytes(buf, bytes) ==
    LET len == Len(bytes) IN
    IF len = 0 THEN buf
    ELSE LET b0 == [buf EXCEPT !.stats.bytes_received = @ + len]
             b1 == IF b0.count + len > PACKET_BUFFER_CAPACITY
                   THEN LET bo == [b0 EXCEPT !.stats.buffer_overflows = @ + 1]
                        IN  IF bo.count > OVERFLOW_KEEP
                            THEN buffer_discard(bo, bo.count - OVERFLOW_KEEP)
                            ELSE bo
                   ELSE b0
         IN  AddLoop(b1, bytes)

\* the header start byte test of buffer_get_packet (line 149), with the test dropped
header_start_ok_nocheck(buf) == TRUE

\* the header start byte test of buffer_get_packet (line 149)
header_start_ok(buf) == buffer_peek_at(buf, PKT_OFFSET_START_BYTE) = HEADER_START_BYTE

\* buffer_get_packet: the buffer afterwards, the return value and the frame handed out
RECURSIVE buffer_get_packet(_, _)
buffer_get_packet(buf, packet_out_size) ==
    IF buf.count < MIN_PACKET_SIZE
    THEN [buf |-> buf, ok |-> FALSE, pkt |-> <<>>]
    ELSE
      LET preamble_idx == buffer_find_preamble(buf, 0) IN
      IF preamble_idx < 0
      THEN [buf |-> IF buf.count > 2 THEN buffer_discard(buf, buf.count - 2) ELSE buf,
            ok |-> FALSE, pkt |-> <<>>]
      ELSE
        LET b1 == IF preamble_idx > 0
                  THEN [buffer_discard(buf, preamble_idx) EXCEPT
                           !.stats.preamble_syncs = @ + 1]
                  ELSE buf
        IN
        IF b1.count < MIN_PACKET_SIZE
        THEN [buf |-> b1, ok |-> FALSE, pkt |-> <<>>]
        ELSE IF ~header_start_ok(b1)
        THEN buffer_get_packet(buffer_discard(b1, 1), packet_out_size)
        ELSE
          LET payload_len == buffer_peek_at(b1, PKT_OFFSET_LENGTH)
              packet_len == message_total_length(payload_len)
          IN
          IF packet_len > MAX_PACKET_SIZE
          THEN buffer_get_packet(buffer_discard(b1, 1), packet_out_size)
          ELSE IF b1.count < packet_len
          THEN [buf |-> b1, ok |-> FALSE, pkt |-> <<>>]
          ELSE IF packet_out_size < packet_len
          THEN [buf |-> b1, ok |-> FALSE, pkt |-> <<>>]
          ELSE
            LET packet_out == buffer_copy_out(b1, 0, packet_len) IN
            IF message_validate_checksum(packet_out)
            THEN [buf |-> [buffer_discard(b1, packet_len) EXCEPT
                              !.stats.packets_received = @ + 1],
                  ok |-> TRUE, pkt |-> packet_out]
            ELSE buffer_get_packet(
                     buffer_discard([b1 EXCEPT !.stats.invalid_checksums = @ + 1], 1),
                     packet_out_size)

\* buffer_clear, had it started the statistics afresh as buffer_init does
buffer_clear_stats(buf) ==
    [buf EXCEPT !.head = 0, !.tail = 0, !.count = 0, !.stats = buffer_stats_init]
buffer_clear(buf) == [buf EXCEPT !.head = 0, !.tail = 0, !.count = 0]

buffer_pending_bytes(buf) == buf.count

----------------------------------------------------------------------------
(* models/state.h, protocol/parser.c                                       *)
(* A float that holds a pH value is kept in thousandths (7.2f is 7200); a   *)
(* float that holds an ORP value is a whole number of mV; the LSI float is  *)
(* kept in hundredths.                                                      *)

DOSING_STATUS_DOSING == 0
DOSING_STATUS_MONITORING == 1
DOSING_STATUS_MIXING == 2
WATER_CHEMISTRY_OK == 0

PAYLOAD_PH_LEVEL == 0
PAYLOAD_ORP_LEVEL == 2
PAYLOAD_PH_SETPOINT == 4
PAYLOAD_ORP_SETPOINT == 6
PAYLOAD_PH_DOSE_TIME == 10
PAYLOAD_ORP_DOSE_TIME == 14
PAYLOAD_PH_DOSE_VOLUME == 16
PAYLOAD_ORP_DOSE_VOLUME == 18
PAYLOAD_PH_TANK_LEVEL == 20
PAYLOAD_ORP_TANK_LEVEL == 21
PAYLOAD_LSI == 22
PAYLOAD_CALCIUM == 23
PAYLOAD_CYA == 26
PAYLOAD_ALKALINITY == 27
PAYLOAD_SALT == 29
PAYLOAD_TEMPERATURE == 31
PAYLOAD_ALARMS == 32
PAYLOAD_WARNINGS == 33
PAYLOAD_DOSING_STATUS == 34
PAYLOAD_STATUS_FLAGS == 35
PAYLOAD_FIRMWARE_MINOR == 36
PAYLOAD_FIRMWARE_MAJOR == 37
PAYLOAD_WATER_CHEMISTRY == 38

\* 2^k
RECURSIVE Pow2(_)
Pow2(k) == IF k = 0 THEN 1 ELSE 2 * Pow2(k - 1)

\* (x & mask) >> lo for a mask of n consecutive bits starting at bit lo
Bits(x, lo, n) == (x \div Pow2(lo)) % Pow2(n)

\* decimal digits of n as characters, at least width of them (printf %d / %03d)
DigitChars == <<"0", "1", "2", "3", "4", "5", "6", "7", "8", "9">>
RECURSIVE Decimal(_, _)
Decimal(n, width) ==
    IF n < 10 /\ width <= 1 THEN <<DigitChars[n + 1]>>
    ELSE Decimal(n \div 10, width - 1) \o <<DigitChars[(n % 10) + 1]>>

intellichem_state_init ==
    [address |-> 144,
     ph |-> [level |-> 0, setpoint |-> 7200, dose_time |-> 0, dose_volume |-> 0,
             tank_level |-> 0, dosing_status |-> DOSING_STATUS_MONITORING, is_dosing |-> FALSE],
     orp |-> [level |-> 0, setpoint |-> 650, dose_time |-> 0, dose_volume |-> 0,
              tank_level |-> 0, dosing_status |-> DOSING_STATUS_MONITORING, is_dosing |-> FALSE],
     lsi |-> 0, calcium_hardness |-> 0, cyanuric_acid |-> 0, alkalinity |-> 0,
     salt_level |-> 0, temperature |-> 0, firmware |-> <<>>,
     alarms |-> [flow |-> FALSE, ph_tank_empty |-> FALSE, orp_tank_empty |-> FALSE,
                 probe_fault |-> FALSE],
     warnings |-> [ph_lockout |-> FALSE, ph_daily_limit |-> FALSE, orp_daily_limit |-> FALSE,
                   invalid_setup |-> FALSE, chlorinator_comm_error |-> FALSE,
                   water_chemistry |-> WATER_CHEMISTRY_OK],
     flow_detected |-> TRUE, comms_lost |-> FALSE, last_update_ms |-> 0]

\* be16 with the two bytes exchanged
be16_little(payload, offset) == (At(payload, offset + 1) * 256 + At(payload, offset)) % U16
be16(payload, offset) == (At(payload, offset) * 256 + At(payload, offset + 1)) % U16

\* in hundredths
parse_lsi(lsi_byte) ==
    IF Bits(lsi_byte, 7, 1) = 1 THEN -(256 - lsi_byte) ELSE lsi_byte

parse_tank_level(raw) ==
    IF raw = 0 THEN 0 ELSE IF raw > 1 THEN raw - 1 ELSE 0

parse_dosing_status(raw) == IF raw > 2 THEN 2 ELSE raw

\* parser_parse_payload: [ok, state]
parser_parse_payload(payload, payload_len, address) ==
    IF payload_len < STATUS_PAYLOAD_LENGTH
    THEN [ok |-> FALSE, state |-> intellichem_state_init]
    ELSE
      LET dosing_byte == At(payload, PAYLOAD_DOSING_STATUS)
          ph_doser_type == Bits(dosing_byte, 0, 2)
          orp_doser_type == Bits(dosing_byte, 2, 2)
          ph_status == parse_dosing_status(Bits(dosing_byte, 4, 2))
          orp_status == parse_dosing_status(Bits(dosing_byte, 6, 2))
          alarm_byte == At(payload, PAYLOAD_ALARMS)
          warning_byte == At(payload, PAYLOAD_WARNINGS)
          water_chem_byte == At(payload, PAYLOAD_WATER_CHEMISTRY)
          status_byte == At(payload, PAYLOAD_STATUS_FLAGS)
      IN [ok |-> TRUE,
          state |->
            [address |-> address,
             ph |-> [level |-> be16(payload, PAYLOAD_PH_LEVEL) * 10,
                     setpoint |-> be16(payload, PAYLOAD_PH_SETPOINT) * 10,
                     dose_time |-> be16(payload, PAYLOAD_PH_DOSE_TIME),
                     dose_volume |-> be16(payload, PAYLOAD_PH_DOSE_VOLUME),
                     tank_level |-> parse_tank_level(At(payload, PAYLOAD_PH_TANK_LEVEL)),
                     dosing_status |-> ph_status,
                     is_dosing |-> (ph_status = DOSING_STATUS_DOSING /\ ph_doser_type # 0)],
             orp |-> [level |-> be16(payload, PAYLOAD_ORP_LEVEL),
                      setpoint |-> be16(payload, PAYLOAD_ORP_SETPOINT),
                      dose_time |-> be16(payload, PAYLOAD_ORP_DOSE_TIME),
                      dose_volume |-> be16(payload, PAYLOAD_ORP_DOSE_VOLUME),
                      tank_level |-> parse_tank_level(At(payload, PAYLOAD_ORP_TANK_LEVEL)),
                      dosing_status |-> orp_status,
                      is_dosing |-> (orp_status = DOSING_STATUS_DOSING /\ orp_doser_type # 0)],
             lsi |-> parse_lsi(At(payload, PAYLOAD_LSI)),
             calcium_hardness |-> be16(payload, PAYLOAD_CALCIUM),
             cyanuric_acid |-> At(payload, PAYLOAD_CYA),
             alkalinity |-> be16(payload, PAYLOAD_ALKALINITY),
             salt_level |-> (At(payload, PAYLOAD_SALT) * 50) % U16,
             temperature |-> At(payload, PAYLOAD_TEMPERATURE),
             firmware |-> Decimal(At(payload, PAYLOAD_FIRMWARE_MAJOR), 1) \o <<".">>
                          \o Decimal(At(payload, PAYLOAD_FIRMWARE_MINOR), 3),
             alarms |-> [flow |-> Bits(alarm_byte, 0, 1) = 1,
                         ph_tank_empty |-> Bits(alarm_byte, 5, 1) = 1,
                         orp_tank_empty |-> Bits(alarm_byte, 6, 1) = 1,
                         probe_fault |-> Bits(alarm_byte, 7, 1) = 1],
             warnings |-> [ph_lockout |-> Bits(warning_byte, 0, 1) = 1,
                           ph_daily_limit |-> Bits(warning_byte, 1, 1) = 1,
                           orp_daily_limit |-> Bits(warning_byte, 2, 1) = 1,
                           invalid_setup |-> Bits(warning_byte, 3, 1) = 1,
                           chlorinator_comm_error |-> Bits(warning_byte, 4, 1) = 1,
                           water_chemistry |-> IF water_chem_byte > 2 THEN 2
                                               ELSE water_chem_byte],
             flow_detected |-> ~(Bits(alarm_byte, 0, 1) = 1),
             comms_lost |-> Bits(status_byte, 7, 1) = 1,
             last_update_ms |-> 0]]

\* the action test of parser_parse_status (line 81), with the test dropped
action_is_status_any(action) == TRUE

\* the action test of parser_parse_status (line 81)
action_is_status(action) == action = ACTION_STATUS_RESPONSE

\* parser_parse_status: [ok, state]
parser_parse_status(pkt) ==
    LET rejected == [ok |-> FALSE, state |-> intellichem_state_init] IN
    IF Len(pkt) < MIN_PACKET_SIZE THEN rejected
    ELSE IF ~message_validate_checksum(pkt) THEN rejected
    ELSE IF ~action_is_status(message_get_action(pkt)) THEN rejected
    ELSE LET source == message_get_source(pkt) IN
         IF source < INTELLICHEM_ADDRESS_MIN \/ source > INTELLICHEM_ADDRESS_MAX THEN rejected
         ELSE LET payload_len == message_get_payload_len(pkt) IN
              IF payload_len < STATUS_PAYLOAD_LENGTH THEN rejected
              ELSE parser_parse_payload(message_get_payload(pkt), payload_len, source)

----------------------------------------------------------------------------
(* protocol/commands.h, protocol/commands.c *)

PH_SETPOINT_MIN == 7000
PH_SETPOINT_MAX == 7600
ORP_SETPOINT_MIN == 400
ORP_SETPOINT_MAX == 800
CALCIUM_HARDNESS_MIN == 25
CALCIUM_HARDNESS_MAX == 800
CYANURIC_ACID_MAX == 210
ALKALINITY_MIN == 25
ALKALINITY_MAX == 800
TANK_LEVEL_MAX == 7

\* a float pH value compared with 7.0f and 7.6f.  The thousandths t stand for
\* the float nearest to t/1000; rounding to float is monotonic and 7.0f, 7.6f are
\* the floats nearest to 7.0 and 7.6, so the float comparison agrees with the
\* comparison of the thousandths.
command_validate_ph_setpoint(value) == value >= PH_SETPOINT_MIN /\ value <= PH_SETPOINT_MAX
command_validate_orp_setpoint(value) == value >= ORP_SETPOINT_MIN /\ value <= ORP_SETPOINT_MAX
command_validate_calcium_hardness(value) ==
    value >= CALCIUM_HARDNESS_MIN /\ value <= CALCIUM_HARDNESS_MAX
\* command_validate_cyanuric_acid with the comparison dropped
command_validate_cyanuric_acid_any(value) == TRUE
command_validate_cyanuric_acid(value) == value <= CYANURIC_ACID_MAX
\* command_validate_alkalinity with the upper comparison dropped
command_validate_alkalinity_min_only(value) == value >= ALKALINITY_MIN
command_validate_alkalinity(value) == value >= ALKALINITY_MIN /\ value <= ALKALINITY_MAX
command_validate_tank_level(value) == value <= TANK_LEVEL_MAX

command_validate_settings(settings) ==
    /\ command_validate_ph_setpoint(settings.ph_setpoint)
    /\ command_validate_orp_setpoint(settings.orp_setpoint)
    /\ command_validate_tank_level(settings.ph_tank_level)
    /\ command_validate_tank_level(settings.orp_tank_level)
    /\ command_validate_calcium_hardness(settings.calcium_hardness)
    /\ command_validate_cyanuric_acid(settings.cyanuric_acid)
    /\ command_validate_alkalinity(settings.alkalinity)

command_settings_from_state(state) ==
    [ph_setpoint |-> state.ph.setpoint,
     orp_setpoint |-> state.orp.setpoint % U16,
     ph_tank_level |-> state.ph.tank_level,
     orp_tank_level |-> state.orp.tank_level,
     calcium_hardness |-> state.calcium_hardness,
     cyanuric_acid |-> state.cyanuric_acid,
     alkalinity |-> state.alkalinity]

\* n/d rounded to the nearest integer, ties to even (IEEE-754 default rounding)
RoundHalfEven(n, d) ==
    LET q == n \div d
        r == n % d
    IN  IF 2 * r < d THEN q
        ELSE IF 2 * r > d THEN q + 1
        ELSE IF q % 2 = 0 THEN q ELSE q + 1

\* (uint16_t)(ph_setpoint * 100) in single precision, for 4.0 <= ph_setpoint < 8.0
\* given in thousandths t: the float is m / 2^21 with m = round(t * 2^21 / 1000),
\* its product with 100.0f lies in [512, 1024) and is r / 2^14 with
\* r = round(m * 100 * 2^14 / 2^21), and the conversion truncates.
ph_times_100(t) ==
    LET m == RoundHalfEven(t * 262144, 125)
        r == RoundHalfEven(m * 25, 32)
    IN  (r \div 16384) % U16

\* command_build_config_payload: the 21 bytes, or <<>> when it returns 0
command_build_config_payload(settings) ==
    IF ~command_validate_settings(settings) THEN <<>>
    ELSE LET ph_value == ph_times_100(settings.ph_setpoint) IN
         << (ph_value \div 256) % 256, ph_value % 256,
            (settings.orp_setpoint \div 256) % 256, settings.orp_setpoint % 256,
            settings.ph_tank_level, settings.orp_tank_level,
            (settings.calcium_hardness \div 256) % 256, settings.calcium_hardness % 256,
            0, settings.cyanuric_acid,
            (settings.alkalinity \div 256) % 256, 0, settings.alkalinity % 256,
            0, 0, 0, 0, 0, 0, 0, 0 >>

\* command_build_config: the frame, or <<>> when it returns 0
command_build_config(buf_size, intellichem_addr, settings) ==
    LET payload == command_build_config_payload(settings) IN
    IF Len(payload) = 0 THEN <<>>
    ELSE message_build(buf_size, intellichem_addr, CONTROLLER_ADDRESS,
                       ACTION_CONFIG_COMMAND, payload)

----------------------------------------------------------------------------
(* mqtt/mqtt_task.c: parse_mqtt_command                                     *)
(* A topic is the sequence of its '/'-separated segments; a payload is the  *)
(* sequence of its characters.                                              *)

TOPIC_BUF_SIZE == 128
DATA_BUF_SIZE == 32

IsDigit(c) == c \in {"0", "1", "2", "3", "4", "5", "6", "7", "8", "9"}
DigitVal(c) == CHOOSE v \in 0..9 : DigitChars[v + 1] = c
IsSpace(c) == c \in {" ", "\t", "\n", "\r"}

LowerOf == [c \in {"O", "N", "F", "T", "R", "U", "E", "A", "L", "S"} |->
               CASE c = "O" -> "o" [] c = "N" -> "n" [] c = "F" -> "f" [] c = "T" -> "t"
                 [] c = "R" -> "r" [] c = "U" -> "u" [] c = "E" -> "e" [] c = "A" -> "a"
                 [] c = "L" -> "l" [] c = "S" -> "s"]
tolower(c) == IF c \in DOMAIN LowerOf THEN LowerOf[c] ELSE c

\* strcasecmp(a, b) == 0
strcasecmp_eq(a, b) ==
    /\ Len(a) = Len(b)
    /\ \A i \in 1..Len(a) : tolower(a[i]) = tolower(b[i])

\* index of the first character at or after i that is not white space
RECURSIVE SkipSpace(_, _)
SkipSpace(str, i) ==
    IF i <= Len(str) /\ IsSpace(str[i]) THEN SkipSpace(str, i + 1) ELSE i

\* the run of digits that starts at i: its value, its length and the index behind it
RECURSIVE ScanDigits(_, _, _, _)
ScanDigits(str, i, acc, n) ==
    IF i <= Len(str) /\ IsDigit(str[i])
    THEN ScanDigits(str, i + 1, acc * 10 + DigitVal(str[i]), n + 1)
    ELSE [val |-> acc, len |-> n, next |-> i]

\* atoi: optional white space, optional sign, decimal digits up to the first
\* other character (0 when there is no digit)
atoi(str) ==
    LET i == SkipSpace(str, 1)
        neg == i <= Len(str) /\ str[i] = "-"
        j == IF i <= Len(str) /\ str[i] \in {"-", "+"} THEN i + 1 ELSE i
        d == ScanDigits(str, j, 0, 0)
    IN  IF neg THEN -d.val ELSE d.val

\* strtof on decimal notation with at most three fractional digits, in
\* thousandths: optional white space, optional sign, digits, optional '.' and
\* digits; 0 when no number starts the string
strtof(str) ==
    LET i == SkipSpace(str, 1)
        neg == i <= Len(str) /\ str[i] = "-"
        j == IF i <= Len(str) /\ str[i] \in {"-", "+"} THEN i + 1 ELSE i
        ip == ScanDigits(str, j, 0, 0)
        dot == ip.next <= Len(str) /\ str[ip.next] = "."
        fp == IF dot THEN ScanDigits(str, ip.next + 1, 0, 0)
              ELSE [val |-> 0, len |-> 0, next |-> ip.next]
        scale == CASE fp.len = 0 -> 1000 [] fp.len = 1 -> 100 [] fp.len = 2 -> 10
                   [] OTHER -> 1
        mag == IF ip.len = 0 /\ fp.len = 0 THEN 0 ELSE ip.val * 1000 + fp.val * scale
    IN  IF neg THEN -mag ELSE mag

RECURSIVE SumLen(_, _)
SumLen(segs, n) == IF n = 0 THEN 0 ELSE SumLen(segs, n - 1) + Len(segs[n])
\* length in characters of the topic
topic_len(topic) == IF Len(topic) = 0 THEN 0 ELSE SumLen(topic, Len(topic)) + Len(topic) - 1

Chars_ON == <<"O", "N">>
Chars_1 == <<"1">>
Chars_true == <<"t", "r", "u", "e">>

dosing_enabled_of(data) ==
    \/ strcasecmp_eq(data, Chars_ON)
    \/ strcasecmp_eq(data, Chars_1)
    \/ strcasecmp_eq(data, Chars_true)

\* (uint16_t) and (uint8_t) applied to the int that atoi returns
to_uint16(v) == v % U16
to_uint8(v) == v % U8

cmd_zero == [type |-> "CMD_TYPE_NONE", value |-> 0]

\* parse_mqtt_command: [ok, cmd]
parse_mqtt_command(topic, data) ==
    LET fail(c) == [ok |-> FALSE, cmd |-> c]
        good(c) == [ok |-> TRUE, cmd |-> c]
    IN
    IF topic_len(topic) <= 0 \/ Len(data) <= 0 THEN fail(cmd_zero)
    ELSE IF topic_len(topic) >= TOPIC_BUF_SIZE THEN fail(cmd_zero)
    ELSE IF Len(data) >= DATA_BUF_SIZE THEN fail(cmd_zero)
    ELSE IF Len(topic) < 2 THEN fail(cmd_zero)
    ELSE
      LET cmd_name == topic[Len(topic)] IN
      IF cmd_name = "ph_setpoint" THEN
          LET c == [type |-> "CMD_TYPE_SET_PH_SETPOINT", value |-> strtof(data)]
          IN  IF ~command_validate_ph_setpoint(c.value) THEN fail(c) ELSE good(c)
      ELSE IF cmd_name = "orp_setpoint" THEN
          LET c == [type |-> "CMD_TYPE_SET_ORP_SETPOINT", value |-> to_uint16(atoi(data))]
          IN  IF ~command_validate_orp_setpoint(c.value) THEN fail(c) ELSE good(c)
      ELSE IF cmd_name = "ph_dosing_enabled" THEN
          good([type |-> "CMD_TYPE_SET_PH_DOSING_ENABLED", value |-> dosing_enabled_of(data)])
      ELSE IF cmd_name = "orp_dosing_enabled" THEN
          good([type |-> "CMD_TYPE_SET_ORP_DOSING_ENABLED", value |-> dosing_enabled_of(data)])
      ELSE IF cmd_name = "calcium_hardness" THEN
          LET c == [type |-> "CMD_TYPE_SET_CALCIUM_HARDNESS", value |-> to_uint16(atoi(data))]
          IN  IF ~command_validate_calcium_hardness(c.value) THEN fail(c) ELSE good(c)
      ELSE IF cmd_name = "cyanuric_acid" THEN
          LET c == [type |-> "CMD_TYPE_SET_CYANURIC_ACID", value |-> to_uint8(atoi(data))]
          IN  IF ~command_validate_cyanuric_acid(c.value) THEN fail(c) ELSE good(c)
      ELSE IF cmd_name = "alkalinity" THEN
          LET c == [type |-> "CMD_TYPE_SET_ALKALINITY", value |-> to_uint16(atoi(data))]
          IN  IF ~command_validate_alkalinity(c.value) THEN fail(c) ELSE good(c)
      ELSE fail(cmd_zero)

----------------------------------------------------------------------------
(* main.c, serial/serial_task.c, mqtt/mqtt_task.c: queues, statics, helpers *)

QUEUE_LENGTH == 4
CONFIG_INTELLICHEM_ADDRESS == 144
STATUS_REQUEST_BUF_SIZE == 16

\* xQueueSend, with the item put in front of the queued items instead of behind them
xQueueSend_front(queue, item) ==
    IF Len(queue) < QUEUE_LENGTH
    THEN [ok |-> TRUE, queue |-> <<item>> \o queue]
    ELSE [ok |-> FALSE, queue |-> queue]

\* xQueueSend on a queue of QUEUE_LENGTH items once its timeout (0 for the state
\* queue, 100 ms for the command queue) has not brought a free slot: [ok, queue]
xQueueSend(queue, item) ==
    IF Len(queue) < QUEUE_LENGTH
    THEN [ok |-> TRUE, queue |-> Append(queue, item)]
    ELSE [ok |-> FALSE, queue |-> queue]

\* the send to the state queue, with the oldest snapshot making room when full
state_queue_send_overwrite(queue, state) ==
    IF Len(queue) < QUEUE_LENGTH
    THEN [ok |-> TRUE, queue |-> Append(queue, state)]
    ELSE [ok |-> TRUE, queue |-> Append(Tail(queue), state)]

\* serial_task.c line 215: xQueueSend(s_state_queue, &state, 0)
state_queue_send(queue, state) == xQueueSend(queue, state)

\* esp_timer_get_time() / 1000: the task starts after a delay of 1000 ms, and a
\* millisecond passes with every read of the UART
now_ms == 1000 + n_adds

\* the statistics counters of the program
Counters ==
    <<s_polls_sent, s_responses_received, s_errors, s_states_published, s_reconnections,
      s_rx_buffer.stats.bytes_received, s_rx_buffer.stats.packets_received,
      s_rx_buffer.stats.invalid_checksums, s_rx_buffer.stats.buffer_overflows,
      s_rx_buffer.stats.preamble_syncs>>

NoMsg == [seen |-> FALSE, topic |-> <<>>, data |-> <<>>, parsed |-> FALSE,
          queue_before |-> <<>>, queue_after |-> <<>>,
          counters_before |-> <<>>, counters_after |-> <<>>]
NoPoll == [seen |-> FALSE, running |-> FALSE, ret |-> "none",
           queue_before |-> <<>>, queue_after |-> <<>>]
NoCmd == [seen |-> FALSE, cmd |-> cmd_zero, settings |-> intellichem_state_init,
          reported |-> <<>>,
          tx_before |-> <<>>, tx_after |-> <<>>, errors_before |-> 0, errors_after |-> 0]

HistInit ==
    [st_sent |-> <<>>, st_taken |-> <<>>, cmd_sent |-> <<>>, cmd_taken |-> <<>>,
     reported |-> <<>>, rx_log |-> <<>>, last_msg |-> NoMsg, last_cmd |-> NoCmd,
     tx_result |-> "none", quiet |-> TRUE, stale |-> FALSE, stale_emit |-> <<>>,
     last_poll |-> NoPoll]

\* the semaphore made by xSemaphoreCreateMutex in serial_task_start
MutexCreated == [handle |-> "set", alive |-> TRUE, holder |-> "none"]

ApiIdle == [pc |-> "idle", state |-> <<>>, ret |-> FALSE, calls |-> 0, freed_use |-> FALSE]

CbIdle == [pc |-> "idle", cmd |-> cmd_zero]

\* serial_task_start: the mutex exists and the stop flag is clear; rs485.c starts
\* with s_tx_mode false; nobody is inside the API, the broker handler or stop
TasksStarted ==
    /\ s_running = TRUE
    /\ s_state_mutex = MutexCreated
    /\ s_tx_mode = FALSE
    /\ api = ApiIdle
    /\ stop_pc = "idle"
    /\ mqtt_pc = "top"
    /\ cb = CbIdle
    /\ halted = {}

\* app_main created the queues; serial_task_start and mqtt_task_start set the statics
SysStarted ==
    /\ TasksStarted
    /\ s_state_queue = <<>>
    /\ s_command_queue = <<>>
    /\ s_last_state = intellichem_state_init
    /\ s_current_settings = intellichem_state_init
    /\ s_polls_sent = 0
    /\ s_responses_received = 0
    /\ s_errors = 0
    /\ serial_pc = "entry"
    /\ tx_wire = <<>>
    /\ s_mqtt_connected = FALSE
    /\ s_discovery_sent = FALSE
    /\ s_states_published = 0
    /\ s_reconnections = 0
    /\ pub_log = <<>>
    /\ n_msgs = 0
    /\ n_events = 0
    /\ hist = HistInit

\* send_status_request with destination and source exchanged
send_status_request_swapped(polls_sent, tx) ==
    LET buf == message_build(STATUS_REQUEST_BUF_SIZE, CONTROLLER_ADDRESS,
                             CONFIG_INTELLICHEM_ADDRESS, ACTION_STATUS_REQUEST, <<>>)
    IN  IF Len(buf) = 0 THEN [polls_sent |-> polls_sent, tx |-> tx]
        ELSE [polls_sent |-> polls_sent + 1, tx |-> Append(tx, buf)]

\* send_status_request: [polls_sent, tx]
send_status_request(polls_sent, tx) ==
    LET buf == message_build(STATUS_REQUEST_BUF_SIZE, CONFIG_INTELLICHEM_ADDRESS,
                             CONTROLLER_ADDRESS, ACTION_STATUS_REQUEST, <<>>)
    IN  IF Len(buf) = 0 THEN [polls_sent |-> polls_sent, tx |-> tx]
        ELSE [polls_sent |-> polls_sent + 1, tx |-> Append(tx, buf)]

\* process_command: [polls_sent, tx, errors]
process_command(cmd, polls_sent, tx, errors) ==
    IF cmd.type = "CMD_TYPE_REQUEST_STATUS"
    THEN LET r == send_status_request(polls_sent, tx)
         IN  [polls_sent |-> r.polls_sent, tx |-> r.tx, errors |-> errors]
    ELSE \* the set commands are logged only, every other type is logged as unknown
         [polls_sent |-> polls_sent, tx |-> tx, errors |-> errors]

\* the loop of process_uart_data on the statics of the poller
\* st = [buf, packet, got_packet, last_state, current_settings,
\*       responses_received, errors, state_queue, now, accepted, log]:
\* buffer_get_packet until it returns false, and for every frame
\* parser_parse_status, the copy into s_last_state and s_current_settings (the
\* mutex is free: its only other user, serial_task_get_last_state, holds it for
\* one memcpy) and the send to the state queue.  accepted collects the
\* snapshots the queue took, log what happened to every frame (stats: the
\* counters s_responses_received and s_errors, the only ones the loop writes).
\* process_uart_data lines 202-221: a parsed status record is stamped, kept as the
\* last state and the current settings, and offered to the state queue
process_uart_status(st, r, state, q) ==
    [st EXCEPT !.buf = r.buf, !.packet = r.pkt, !.got_packet = TRUE,
               !.responses_received = @ + 1,
               !.last_state = state,
               !.current_settings = state,
               !.state_queue = q.queue,
               !.accepted = IF q.ok THEN Append(@, state) ELSE @,
               !.log = Append(@, [pkt |-> r.pkt, parsed |-> TRUE,
                                  last_before |-> st.last_state,
                                  last_after |-> state,
                                  queue_before |-> st.state_queue,
                                  queue_after |-> q.queue,
                                  stats_before |-> <<st.responses_received, st.errors>>,
                                  stats_after |-> <<st.responses_received + 1, st.errors>>])]

\* process_uart_data lines 199-228: what one frame taken from the buffer does
process_uart_packet(st, r, p) ==
    IF p.ok
    THEN process_uart_status(
           st, r, [p.state EXCEPT !.last_update_ms = st.now],
           state_queue_send(st.state_queue, [p.state EXCEPT !.last_update_ms = st.now]))
    ELSE [st EXCEPT !.buf = r.buf, !.packet = r.pkt, !.got_packet = TRUE,
                    !.errors = @ + 1,
                    !.log = Append(@, [pkt |-> r.pkt, parsed |-> FALSE,
                                       last_before |-> st.last_state,
                                       last_after |-> st.last_state,
                                       queue_before |-> st.state_queue,
                                       queue_after |-> st.state_queue,
                                       stats_before |-> <<st.responses_received, st.errors>>,
                                       stats_after |-> <<st.responses_received, st.errors + 1>>])]

\* process_uart_data lines 194-229: the loop goes on while buffer_get_packet
\* hands out a frame
RECURSIVE process_uart_loop(_)
process_uart_next(st, r) ==
    IF ~r.ok
    THEN [st EXCEPT !.buf = r.buf, !.packet = r.pkt, !.got_packet = FALSE]
    ELSE process_uart_loop(process_uart_packet(st, r, parser_parse_status(r.pkt)))

process_uart_loop(st) == process_uart_next(st, buffer_get_packet(st.buf, MAX_PACKET_SIZE))

----------------------------------------------------------------------------
(* Frames and byte chunks used as input *)

\* main.c test_status_packet: payload of the 41-byte status response
TestStatusPayload ==
    <<2, 212, 2, 188, 2, 208, 2, 138, 0, 0, 0, 60, 0, 0, 0, 30, 0, 100, 0, 50, 5, 4, 0,
      1, 44, 0, 50, 0, 80, 60, 0, 82, 0, 0, 16, 1, 0, 1, 0, 0, 0>>

StatusFrame == message_build(64, CONTROLLER_ADDRESS, 144, ACTION_STATUS_RESPONSE, TestStatusPayload)
MinFrame == message_build(64, 0, 0, 0, <<>>)
BroadcastFrame == message_build(64, CONTROLLER_ADDRESS, 144, ACTION_OCP_BROADCAST, <<1, 2>>)
\* a well-formed frame of 65 bytes (payload 54), one more than MAX_PACKET_SIZE
LongFrame == message_build(128, CONTROLLER_ADDRESS, 144, ACTION_STATUS_RESPONSE, Rep(1, 54))
\* MinFrame with its stored checksum off by one
BadChecksumFrame == SubSeq(MinFrame, 1, 10) \o <<(MinFrame[11] + 1) % 256>>

\* a preamble and 0xA5 header announcing a payload of 240 bytes (251 > MAX_PACKET_SIZE)
OversizeHeader == <<255, 0, 255, 165, 0, 0, 0, 0, 240>>
\* a preamble followed by an all-zero header instead of 0xA5; its bytes sum to
\* the stored checksum 00 00
FakePreamble == <<255, 0, 255, 0, 0, 0, 0, 0, 0, 0, 0>>
\* noise without any preamble byte pattern, long enough to overflow the ring
BigNoise == Rep(17, 300)

\* noise that ends in the first two preamble bytes
NoiseHalfPreamble == <<17, 255, 0>>
\* the rest of MinFrame after its first two bytes
MinFrameRest == SubSeq(MinFrame, 3, 11)

\* one push of more bytes than fit beside the 64 bytes kept on overflow
FloodNoise == Rep(34, 500)

BufChunks ==
    { MinFrame, BadChecksumFrame, StatusFrame, LongFrame, OversizeHeader, FakePreamble,
      BigNoise, NoiseHalfPreamble, MinFrameRest, FloodNoise }

----------------------------------------------------------------------------
(* Specification SpecBuf: the resynchronizer under any sequence of          *)
(* buffer_add_bytes, buffer_get_packet and buffer_clear.                    *)

MaxAdds == 3

ScenarioIdle == [pc |-> "off", garbage |-> <<>>, frame |-> <<>>, yielded |-> <<>>]

InitBuf ==
    /\ s_rx_buffer = buffer_init
    /\ packet = <<>>
    /\ got_packet = FALSE
    /\ n_adds = 0
    /\ sc = ScenarioIdle
    /\ SysStarted

BufAddBytes(bytes) ==
    /\ n_adds < MaxAdds
    /\ n_adds' = n_adds + 1
    /\ s_rx_buffer' = buffer_add_bytes(s_rx_buffer, bytes)
    /\ UNCHANGED <<packet, got_packet, sc, sysVars>>

BufGetPacket ==
    LET r == buffer_get_packet(s_rx_buffer, MAX_PACKET_SIZE) IN
    /\ s_rx_buffer' = r.buf
    /\ got_packet' = r.ok
    /\ packet' = r.pkt
    /\ UNCHANGED <<n_adds, sc, sysVars>>

BufClear ==
    /\ s_rx_buffer' = buffer_clear(s_rx_buffer)
    /\ UNCHANGED <<packet, got_packet, n_adds, sc, sysVars>>

NextBuf ==
    \/ \E bytes \in BufChunks : BufAddBytes(bytes)
    \/ BufGetPacket
    \/ BufClear

SpecBuf == InitBuf /\ [][NextBuf]_vars

\* C1: every frame that buffer_get_packet returns passes message_validate_structure
\* (preamble FF 00 FF, fourth byte 0xA5) and message_validate_checksum.
C1_YieldedFrameValid ==
    got_packet => /\ message_validate_structure(packet)
                  /\ message_validate_checksum(packet)

\* a frame was returned after the ring skipped a bad-checksum candidate and resynchronized
C1_Witness ==
    /\ got_packet
    /\ s_rx_buffer.stats.invalid_checksums > 0
    /\ s_rx_buffer.stats.preamble_syncs > 0

\* the pending bytes of the ring, oldest first
Pending(buf) == buffer_copy_out(buf, 0, buf.count)

\* the last n elements of q, or all of q when it has fewer
LastOf(q, n) == IF Len(q) > n THEN SubSeq(q, Len(q) - n + 1, Len(q)) ELSE q

\* what C28 says of a push of bytes that takes the ring past its capacity
OverflowKeepsRecent(bytes) ==
    (BufAddBytes(bytes) /\ s_rx_buffer.count + Len(bytes) > PACKET_BUFFER_CAPACITY) =>
        /\ Pending(s_rx_buffer') = LastOf(Pending(s_rx_buffer), 64) \o bytes
        /\ s_rx_buffer'.stats.buffer_overflows = s_rx_buffer.stats.buffer_overflows + 1

\* C28 (as stated): when a push would take the buffer past its 512 bytes,
\* buffer_add_bytes drops all but the most recent 64 buffered bytes and accepts
\* the new ones, so that the buffer then holds those old bytes followed by the
\* new bytes in order, and buffer_overflows grows by exactly one.
C28_OverflowKeepsRecent64 ==
    [][\A bytes \in BufChunks : OverflowKeepsRecent(bytes)]_vars

\* C28 (amended): the same for a push of at most 448 bytes, which fits beside
\* the 64 bytes kept.
C28_OverflowKeepsRecent64UpTo448 ==
    [][\A bytes \in BufChunks : Len(bytes) <= 448 => OverflowKeepsRecent(bytes)]_vars

\* a status frame and 300 bytes of noise were pending when 300 more bytes came:
\* the last 64 bytes of noise were kept in front of the new ones
C28_Witness ==
    /\ s_rx_buffer.stats.buffer_overflows = 1
    /\ s_rx_buffer.stats.bytes_received = Len(StatusFrame) + 600
    /\ s_rx_buffer.count = 364
    /\ Pending(s_rx_buffer) = Rep(17, 364)
    /\ s_rx_buffer.tail = Len(StatusFrame) + 300 - 64

----------------------------------------------------------------------------
(* Specification SpecResync: one frame behind noise.  The ring is empty    *)
(* (fresh, or emptied after earlier traffic moved its positions), noise    *)
(* followed by a frame is pushed in one buffer_add_bytes, and               *)
(* buffer_get_packet is called until it returns false.                      *)

MaxGarbage == 3

NoiseBytes == {255, 0, 165, 17}

RECURSIVE SeqsUpTo(_, _)
SeqsUpTo(S, n) ==
    IF n = 0 THEN {<<>>}
    ELSE LET shorter == SeqsUpTo(S, n - 1)
         IN  shorter \cup {Append(q, x) : q \in {r \in shorter : Len(r) = n - 1}, x \in S}

HasPreamble(q) ==
    \E i \in 1..(Len(q) - 2) :
        /\ q[i] = PREAMBLE_BYTE_1 /\ q[i + 1] = PREAMBLE_BYTE_2 /\ q[i + 2] = PREAMBLE_BYTE_3

\* noise without the preamble: every short sequence over NoiseBytes, and two
\* runs longer than what fits beside a frame / longer than the ring
Garbage ==
    {q \in SeqsUpTo(NoiseBytes, MaxGarbage) : ~HasPreamble(q)}
    \cup {Rep(17, 480) \o <<255, 0>>, Rep(0, 600) \o <<255>>}

\* frames as message_build lays them out
BuiltFrames == {MinFrame, StatusFrame, BroadcastFrame, LongFrame}

\* the ring after n MinFrames were pushed and taken out again: empty, with
\* head = tail = 11 * n
RECURSIVE Drained(_)
Drained(buf) ==
    LET r == buffer_get_packet(buf, MAX_PACKET_SIZE)
    IN  IF r.ok THEN Drained(r.buf) ELSE r.buf

RECURSIVE Times(_, _)
Times(q, n) == IF n = 0 THEN <<>> ELSE q \o Times(q, n - 1)

EarlierTraffic == {0, 46}

\* noise that ends in a whole preamble: AA BB FF 00 FF
ResyncNoise == <<170, 187, 255, 0, 255>>

\* frame f with delta added to its stored checksum
WithChecksumOff(f, delta) ==
    LET stored == (BE16(f, Len(f) - 2) + delta) % U16
    IN  SubSeq(f, 1, Len(f) - 2) \o <<stored \div 256, stored % 256>>

\* a frame whose payload is itself a frame
NestedFrame ==
    message_build(MAX_PACKET_SIZE, CONTROLLER_ADDRESS, 144, ACTION_OCP_BROADCAST, MinFrame)

\* frames whose stored checksum is one more or one less than the computed one
BadFrames ==
    { WithChecksumOff(f, delta) :
        f \in {MinFrame, StatusFrame, BroadcastFrame, NestedFrame}, delta \in {1, U16 - 1} }

InitResync ==
    /\ s_rx_buffer = buffer_init
    /\ packet = <<>>
    /\ got_packet = FALSE
    /\ n_adds = 0
    /\ SysStarted
    /\ \/ \E g \in Garbage \cup {ResyncNoise}, f \in BuiltFrames :
             sc = [pc |-> "fresh", garbage |-> g, frame |-> f, yielded |-> <<>>]
       \/ \E f \in BadFrames :
             sc = [pc |-> "bad", garbage |-> <<>>, frame |-> f, yielded |-> <<>>]

\* earlier traffic, fully consumed, leaves the ring empty at another position
ScEarlier(n) ==
    /\ sc.pc = "fresh"
    /\ s_rx_buffer' = Drained(buffer_add_bytes(s_rx_buffer, Times(MinFrame, n)))
    /\ sc' = [sc EXCEPT !.pc = "empty"]
    /\ UNCHANGED <<packet, got_packet, n_adds, sysVars>>

ScPush ==
    /\ sc.pc = "empty"
    /\ s_rx_buffer.count = 0
    /\ s_rx_buffer' = buffer_add_bytes(s_rx_buffer, sc.garbage \o sc.frame)
    /\ sc' = [sc EXCEPT !.pc = "pushed"]
    /\ UNCHANGED <<packet, got_packet, n_adds, sysVars>>

ScTake ==
    /\ sc.pc = "pushed"
    /\ LET r == buffer_get_packet(s_rx_buffer, MAX_PACKET_SIZE) IN
          /\ s_rx_buffer' = r.buf
          /\ got_packet' = r.ok
          /\ packet' = r.pkt
          /\ sc' = [sc EXCEPT !.pc = IF r.ok THEN "pushed" ELSE "done",
                              !.yielded = IF r.ok THEN Append(@, r.pkt) ELSE @]
    /\ UNCHANGED <<n_adds, sysVars>>

\* the frame with the wrong checksum is pushed into the fresh, empty ring
ScPushBad ==
    /\ sc.pc = "bad"
    /\ s_rx_buffer' = buffer_add_bytes(s_rx_buffer, sc.frame)
    /\ sc' = [sc EXCEPT !.pc = "bad_pushed"]
    /\ UNCHANGED <<packet, got_packet, n_adds, sysVars>>

\* the first buffer_get_packet on it
ScTakeBad ==
    /\ sc.pc = "bad_pushed"
    /\ LET r == buffer_get_packet(s_rx_buffer, MAX_PACKET_SIZE) IN
          /\ s_rx_buffer' = r.buf
          /\ got_packet' = r.ok
          /\ packet' = r.pkt
          /\ sc' = [sc EXCEPT !.pc = "bad_taken",
                              !.yielded = IF r.ok THEN Append(@, r.pkt) ELSE @]
    /\ UNCHANGED <<n_adds, sysVars>>

\* buffer_get_packet again on what is left, until it returns false
ScRetryBad ==
    /\ sc.pc \in {"bad_taken", "bad_retried"}
    /\ LET r == buffer_get_packet(s_rx_buffer, MAX_PACKET_SIZE) IN
          /\ s_rx_buffer' = r.buf
          /\ got_packet' = r.ok
          /\ packet' = r.pkt
          /\ sc' = [sc EXCEPT !.pc = IF r.ok THEN "bad_retried" ELSE "bad_done",
                              !.yielded = IF r.ok THEN Append(@, r.pkt) ELSE @]
    /\ UNCHANGED <<n_adds, sysVars>>

NextResync ==
    \/ \E n \in EarlierTraffic : ScEarlier(n)
    \/ ScPush
    \/ ScTake
    \/ ScPushBad
    \/ ScTakeBad
    \/ ScRetryBad

SpecResync == InitResync /\ [][NextResync]_vars

\* C8 as stated: a valid frame behind preamble-free noise comes out as exactly
\* one frame, equal to the frame pushed.
C8_AnyFrameYieldedOnce ==
    sc.pc = "done" => sc.yielded = <<sc.frame>>

\* C8 amended: the same for every frame whose total length is at most
\* MAX_PACKET_SIZE (64) bytes.
C8_FrameUpTo64YieldedOnce ==
    (sc.pc = "done" /\ Len(sc.frame) <= MAX_PACKET_SIZE) => sc.yielded = <<sc.frame>>

\* the status frame came out from behind noise that ends in half a preamble,
\* in a ring whose positions had moved and wrapped around
C8_Witness ==
    /\ sc.pc = "done"
    /\ sc.frame = StatusFrame
    /\ sc.garbage = <<17, 255, 0>>
    /\ sc.yielded = <<StatusFrame>>
    /\ s_rx_buffer.stats.preamble_syncs > 0
    /\ s_rx_buffer.stats.packets_received > 1
    /\ s_rx_buffer.tail < s_rx_buffer.stats.bytes_received

\* C26: pushing AA BB FF 00 FF followed by a valid frame into an empty buffer
\* and calling buffer_get_packet returns that frame, leaves zero pending bytes
\* and increments preamble_syncs by exactly one (from 0 to 1).
C26_ResyncCountedOnce ==
    (/\ sc.garbage = ResyncNoise
     /\ Len(sc.frame) <= MAX_PACKET_SIZE
     /\ sc.pc \in {"pushed", "done"}
     /\ (sc.pc = "done" \/ sc.yielded # <<>>)) =>
        /\ sc.yielded = <<sc.frame>>
        /\ buffer_pending_bytes(s_rx_buffer) = 0
        /\ s_rx_buffer.stats.preamble_syncs = 1

----------------------------------------------------------------------------
(* Specification Spec: the poller (serial_task), the broker event handler  *)
(* (mqtt_event_handler) and the publisher (mqtt_task) running together.    *)

\* events from outside in one behaviour (reads of bus data, broker messages,
\* API calls, timer expiries, faults), and among them broker messages and API calls
MaxInputs == 3
MaxMsgs == 2

InputLeft == n_adds + n_msgs + n_events < MaxInputs

\* a second status response, with other setpoints and tank levels
StatusPayloadB ==
    <<2, 218, 2, 193, 2, 238, 2, 188, 0, 0, 0, 60, 0, 0, 0, 30, 0, 100, 0, 50, 3, 7, 0,
      1, 94, 0, 40, 0, 90, 60, 0, 82, 0, 0, 16, 1, 0, 1, 0, 0, 0>>
StatusFrameB ==
    message_build(64, CONTROLLER_ADDRESS, 145, ACTION_STATUS_RESPONSE, StatusPayloadB)
\* two status responses arriving in one read of at most 128 bytes
TwoStatusFrames == StatusFrameB \o StatusFrame
\* an action-147 broadcast that is as long as a status response
OcpBroadcast ==
    message_build(64, CONTROLLER_ADDRESS, 144, ACTION_OCP_BROADCAST, TestStatusPayload)

UART_READ_SIZE == 128
UartChunks == {TwoStatusFrames, OcpBroadcast}

\* serial_task up to its loop: buffer_init, uart and rs485 set up, first status request
SerialTaskEntry ==
    /\ serial_pc = "entry"
    /\ s_rx_buffer' = buffer_init
    /\ LET r == send_status_request(s_polls_sent, tx_wire) IN
          /\ s_polls_sent' = r.polls_sent
          /\ tx_wire' = r.tx
    /\ serial_pc' = "wait"
    /\ UNCHANGED <<packet, got_packet, n_adds, sc, taskVars, queueVars, s_last_state,
                   s_current_settings, s_responses_received, s_errors, mqttVars, inputVars, hist>>

\* process_uart_data: the statics and the queue as the drain loop leaves them
SerialStoreUart(st) ==
    /\ s_rx_buffer' = st.buf
    /\ packet' = st.packet
    /\ got_packet' = st.got_packet
    /\ s_last_state' = st.last_state
    /\ s_current_settings' = st.current_settings
    /\ s_responses_received' = st.responses_received
    /\ s_errors' = st.errors
    /\ s_state_queue' = st.state_queue
    /\ hist' = [hist EXCEPT
                  !.st_sent = @ \o st.accepted,
                  !.rx_log = st.log,
                  !.quiet = @ /\ ~(\E n \in 1..Len(st.log) : st.log[n].parsed),
                  !.stale = @ /\ ~(\E n \in 1..Len(st.log) : st.log[n].parsed),
                  !.stale_emit =
                      IF hist.stale /\ (\E n \in 1..Len(st.log) : st.log[n].parsed)
                      THEN Append(@, st.log[CHOOSE n \in 1..Len(st.log) :
                                              /\ st.log[n].parsed
                                              /\ \A m \in 1..(n - 1) : ~st.log[m].parsed
                                           ].last_after)
                      ELSE @,
                  !.reported =
                      IF \E n \in 1..Len(st.log) : st.log[n].parsed
                      THEN message_get_payload(
                             st.log[CHOOSE n \in 1..Len(st.log) :
                                      /\ st.log[n].parsed
                                      /\ \A m \in (n + 1)..Len(st.log) : ~st.log[m].parsed].pkt)
                      ELSE @]

\* process_uart_data: uart_read_bytes, buffer_add_bytes and the loop.  It runs
\* for a UART_DATA event (serial_pc = "wait") and once more in every turn of
\* the task loop (serial_pc = "rx"); data is the bytes read, <<>> for none.
SerialProcessUartData(data) ==
    /\ serial_pc \in {"wait", "rx"}
    /\ Len(data) <= UART_READ_SIZE
    /\ serial_pc' = IF serial_pc = "wait" THEN "rx" ELSE "cmds"
    /\ IF Len(data) > 0
       THEN /\ n_adds' = n_adds + 1
            /\ SerialStoreUart(process_uart_loop(
                           [buf |-> buffer_add_bytes(s_rx_buffer, data),
                            packet |-> packet, got_packet |-> got_packet,
                            last_state |-> s_last_state,
                            current_settings |-> s_current_settings,
                            responses_received |-> s_responses_received,
                            errors |-> s_errors,
                            state_queue |-> s_state_queue,
                            now |-> now_ms',
                            accepted |-> <<>>, log |-> <<>>]))
       ELSE /\ serial_pc = "rx"
            /\ UNCHANGED <<bufVars, s_last_state, s_current_settings,
                           s_responses_received, s_errors, s_state_queue, hist>>
    /\ UNCHANGED <<sc, taskVars, s_command_queue, s_polls_sent, tx_wire, mqttVars, inputVars>>

\* the wait for a UART event ends without one, or with one that the switch ignores
SerialUartNone ==
    /\ serial_pc = "wait"
    /\ serial_pc' = "rx"
    /\ UNCHANGED <<bufVars, sc, taskVars, queueVars, s_last_state, s_current_settings, s_polls_sent,
                   s_responses_received, s_errors, tx_wire, mqttVars, inputVars, hist>>

\* UART_FIFO_OVF, UART_BUFFER_FULL: buffer_clear and s_errors++
SerialUartOverflow ==
    /\ serial_pc = "wait"
    /\ n_events' = n_events + 1
    /\ s_rx_buffer' = buffer_clear(s_rx_buffer)
    /\ s_errors' = s_errors + 1
    /\ serial_pc' = "rx"
    /\ UNCHANGED <<packet, got_packet, n_adds, sc, taskVars, queueVars, s_last_state,
                   s_current_settings, s_polls_sent, s_responses_received, tx_wire,
                   mqttVars, n_msgs, hist>>

\* UART_PARITY_ERR, UART_FRAME_ERR: s_errors++
SerialUartLineError ==
    /\ serial_pc = "wait"
    /\ n_events' = n_events + 1
    /\ s_errors' = s_errors + 1
    /\ serial_pc' = "rx"
    /\ UNCHANGED <<bufVars, sc, taskVars, queueVars, s_last_state, s_current_settings, s_polls_sent,
                   s_responses_received, tx_wire, mqttVars, n_msgs, hist>>

\* the command loop of serial_task: xQueueReceive(s_command_queue, 0) returned a
\* command, process_command
SerialTakeCommand ==
    /\ serial_pc = "cmds"
    /\ Len(s_command_queue) > 0
    /\ LET cmd == Head(s_command_queue)
           r == process_command(cmd, s_polls_sent, tx_wire, s_errors)
       IN
          /\ s_command_queue' = Tail(s_command_queue)
          /\ s_polls_sent' = r.polls_sent
          /\ tx_wire' = r.tx
          /\ s_errors' = r.errors
          /\ hist' = [hist EXCEPT
                        !.cmd_taken = Append(@, cmd),
                        !.last_cmd = [seen |-> TRUE, cmd |-> cmd,
                                      settings |-> s_current_settings,
                                      reported |-> hist.reported,
                                      tx_before |-> tx_wire, tx_after |-> r.tx,
                                      errors_before |-> s_errors, errors_after |-> r.errors]]
    /\ UNCHANGED <<bufVars, sc, taskVars, s_state_queue, s_last_state, s_current_settings,
                   s_responses_received, serial_pc, mqttVars, inputVars>>

\* the command loop ends: xQueueReceive(s_command_queue, 0) found the queue empty
SerialCommandsDone ==
    /\ serial_pc = "cmds"
    /\ Len(s_command_queue) = 0
    /\ serial_pc' = "poll"
    /\ UNCHANGED <<bufVars, sc, taskVars, queueVars, s_last_state, s_current_settings, s_polls_sent,
                   s_responses_received, s_errors, tx_wire, mqttVars, inputVars, hist>>

\* the poll interval has passed: send_status_request
SerialPoll ==
    /\ serial_pc = "poll"
    /\ n_events' = n_events + 1
    /\ LET r == send_status_request(s_polls_sent, tx_wire) IN
          /\ s_polls_sent' = r.polls_sent
          /\ tx_wire' = r.tx
    /\ serial_pc' = "wait"
    /\ hist' = [hist EXCEPT !.stale = hist.quiet, !.quiet = TRUE]
    /\ UNCHANGED <<bufVars, sc, taskVars, queueVars, s_last_state, s_current_settings,
                   s_responses_received, s_errors, mqttVars, n_msgs>>

\* the poll interval has not passed
SerialNoPoll ==
    /\ serial_pc = "poll"
    /\ serial_pc' = "wait"
    /\ UNCHANGED <<bufVars, sc, taskVars, queueVars, s_last_state, s_current_settings, s_polls_sent,
                   s_responses_received, s_errors, tx_wire, mqttVars, inputVars, hist>>

\* serial_task_force_poll
ForcePoll ==
    /\ serial_pc # "entry"
    /\ n_msgs' = n_msgs + 1
    /\ LET cmd == [type |-> "CMD_TYPE_REQUEST_STATUS", value |-> 0]
           q == xQueueSend(s_command_queue, cmd)
       IN
          /\ s_command_queue' = q.queue
          /\ hist' = [hist EXCEPT !.cmd_sent = IF q.ok THEN Append(@, cmd) ELSE @]
    /\ UNCHANGED <<bufVars, sc, taskVars, s_state_queue, serialVars, s_mqtt_connected,
                   s_discovery_sent, s_states_published, s_reconnections, pub_log, n_events>>

\* publisher_publish_availability: the retained payload; the callers ignore
\* the result
publisher_publish_availability(online) ==
    [kind |-> "availability", body |-> IF online THEN "online" ELSE "offline"]

\* the publishes of MQTT_EVENT_CONNECTED, with the availability published
\* together with the discovery, once
mqtt_event_connected_once(discovery_sent) ==
    IF discovery_sent THEN <<>>
    ELSE <<publisher_publish_availability(TRUE), [kind |-> "discovery", body |-> "all"]>>

\* the publishes of MQTT_EVENT_CONNECTED: availability online on every connect,
\* discovery_publish_all on the first one
mqtt_event_connected(discovery_sent) ==
    <<publisher_publish_availability(TRUE)>>
        \o (IF discovery_sent THEN <<>> ELSE <<[kind |-> "discovery", body |-> "all"]>>)

\* mqtt_event_handler, MQTT_EVENT_CONNECTED
MqttEventConnected ==
    /\ mqtt_pc # "stopped"
    /\ ~s_mqtt_connected
    /\ s_mqtt_connected' = TRUE
    /\ pub_log' = pub_log \o mqtt_event_connected(s_discovery_sent)
    /\ s_discovery_sent' = TRUE
    /\ UNCHANGED <<bufVars, sc, taskVars, queueVars, serialVars, s_states_published,
                   s_reconnections, inputVars, hist>>

\* mqtt_event_handler, MQTT_EVENT_DISCONNECTED
MqttEventDisconnected ==
    /\ mqtt_pc # "stopped"
    /\ s_mqtt_connected
    /\ n_events' = n_events + 1
    /\ s_mqtt_connected' = FALSE
    /\ s_reconnections' = s_reconnections + 1
    /\ UNCHANGED <<bufVars, sc, taskVars, queueVars, serialVars, s_discovery_sent,
                   s_states_published, pub_log, n_msgs, hist>>

\* mqtt_event_handler, MQTT_EVENT_DATA: parse_mqtt_command and xQueueSend to the
\* command queue (CONFIG_CONTROL_ENABLED is 1)
MqttEventData(topic, data) ==
    /\ mqtt_pc # "stopped"
    /\ s_mqtt_connected
    /\ n_msgs' = n_msgs + 1
    /\ UNCHANGED <<bufVars, sc, taskVars, s_state_queue, serialVars, s_mqtt_connected,
                   s_discovery_sent, s_states_published, s_reconnections, pub_log, n_events>>
    /\ LET r == parse_mqtt_command(topic, data)
           q == xQueueSend(s_command_queue, r.cmd)
       IN
          /\ s_command_queue' = IF r.ok THEN q.queue ELSE s_command_queue
          /\ hist' = [hist EXCEPT
                        !.cmd_sent = IF r.ok /\ q.ok THEN Append(@, r.cmd) ELSE @,
                        !.last_msg = [seen |-> TRUE, topic |-> topic, data |-> data,
                                      parsed |-> r.ok,
                                      queue_before |-> s_command_queue,
                                      queue_after |-> s_command_queue',
                                      counters_before |-> Counters,
                                      counters_after |-> Counters']]

\* publisher_publish_state: the aggregate JSON message first, whose failure is
\* only logged, then the per-field messages, whose first failure is returned;
\* json_ok, leaves_ok: esp_mqtt_client_publish accepted the JSON message, every
\* per-field message
publisher_publish_state(state, json_ok, leaves_ok) ==
    [ret |-> IF leaves_ok THEN "ESP_OK" ELSE "ESP_FAIL",
     msgs |-> (IF json_ok THEN <<[kind |-> "json", body |-> state]>> ELSE <<>>)
              \o (IF leaves_ok THEN <<[kind |-> "state", body |-> state]>> ELSE <<>>)]

\* the body of mqtt_task's loop for a dequeued snapshot, with the test of
\* s_mqtt_connected left out
mqtt_task_publish_unguarded(connected, state, json_ok, leaves_ok) ==
    LET r == publisher_publish_state(state, json_ok, leaves_ok) IN
    [counted |-> r.ret = "ESP_OK", msgs |-> r.msgs]

\* the body of mqtt_task's loop for a dequeued snapshot: publish only while
\* s_mqtt_connected, count only a return of ESP_OK
mqtt_task_publish(connected, state, json_ok, leaves_ok) ==
    LET r == publisher_publish_state(state, json_ok, leaves_ok) IN
    IF connected
    THEN [counted |-> r.ret = "ESP_OK", msgs |-> r.msgs]
    ELSE [counted |-> FALSE, msgs |-> <<>>]

\* one turn of the loop of mqtt_task in which xQueueReceive(s_state_queue, 1000 ms)
\* returned a snapshot; json_ok, leaves_ok: the outcome of the publishes of
\* publisher_publish_state, a failure being an input from the broker client
MqttTaskReceive(json_ok, leaves_ok) ==
    /\ mqtt_pc = "top"
    /\ Len(s_state_queue) > 0
    /\ (~s_mqtt_connected => json_ok /\ leaves_ok)
    /\ IF json_ok /\ leaves_ok THEN UNCHANGED n_events
       ELSE n_events' = n_events + 1
    /\ LET state == Head(s_state_queue)
           p == mqtt_task_publish(s_mqtt_connected, state, json_ok, leaves_ok)
       IN
          /\ s_state_queue' = Tail(s_state_queue)
          /\ hist' = [hist EXCEPT !.st_taken = Append(@, state)]
          /\ s_states_published' = IF p.counted THEN s_states_published + 1
                                   ELSE s_states_published
          /\ pub_log' = pub_log \o p.msgs
    /\ UNCHANGED <<bufVars, sc, taskVars, s_command_queue, serialVars, s_mqtt_connected,
                   s_discovery_sent, s_reconnections, n_msgs>>

\* mqtt_task_stop cleared s_running of mqtt_task.c and mqtt_task left its loop:
\* the first statement of the cleanup, publisher_publish_availability(false),
\* followed by the delay of 100 ms
MqttTaskCleanupOffline ==
    /\ mqtt_pc = "top"
    /\ n_events' = n_events + 1
    /\ pub_log' = Append(pub_log, publisher_publish_availability(FALSE))
    /\ mqtt_pc' = "offline"
    /\ UNCHANGED <<bufVars, sc, queueVars, serialVars, s_mqtt_connected, s_discovery_sent,
                   s_states_published, s_reconnections, n_msgs, hist, s_running,
                   s_state_mutex, s_tx_mode, api, stop_pc, cb, halted>>

\* the rest of the cleanup of mqtt_task: esp_mqtt_client_stop and
\* esp_mqtt_client_destroy end the broker session
MqttTaskCleanupTeardown ==
    /\ mqtt_pc = "offline"
    /\ pub_log' = Append(pub_log, [kind |-> "session", body |-> "stop"])
    /\ mqtt_pc' = "stopped"
    /\ UNCHANGED <<bufVars, sc, queueVars, serialVars, s_mqtt_connected, s_discovery_sent,
                   s_states_published, s_reconnections, inputVars, hist, s_running,
                   s_state_mutex, s_tx_mode, api, stop_pc, cb, halted>>

\* broker messages on the command topics <prefix>/intellichem/set/<name>
SysMessages ==
    { [topic |-> <<"intellichem2mqtt", "intellichem", "set", "ph_setpoint">>, data |-> <<"9", ".", "9">>],
      [topic |-> <<"intellichem2mqtt", "intellichem", "set", "orp_setpoint">>, data |-> <<"7", "0", "0">>] }

Next ==
    \/ SerialTaskEntry
    \/ SerialProcessUartData(<<>>)
    \/ InputLeft /\ \E data \in UartChunks : SerialProcessUartData(data)
    \/ SerialUartNone
    \/ InputLeft /\ SerialUartOverflow
    \/ InputLeft /\ SerialUartLineError
    \/ SerialTakeCommand
    \/ SerialCommandsDone
    \/ InputLeft /\ SerialPoll
    \/ SerialNoPoll
    \/ InputLeft /\ n_msgs < MaxMsgs /\ ForcePoll
    \/ MqttEventConnected
    \/ InputLeft /\ MqttEventDisconnected
    \/ InputLeft /\ n_msgs < MaxMsgs /\ \E m \in SysMessages : MqttEventData(m.topic, m.data)
    \/ MqttTaskReceive(TRUE, TRUE)
    \/ InputLeft /\ MqttTaskReceive(FALSE, TRUE)
    \/ InputLeft /\ \E json_ok \in BOOLEAN : MqttTaskReceive(json_ok, FALSE)
    \/ InputLeft /\ MqttTaskCleanupOffline
    \/ MqttTaskCleanupTeardown

Init ==
    /\ s_rx_buffer = buffer_init
    /\ packet = <<>>
    /\ got_packet = FALSE
    /\ n_adds = 0
    /\ sc = ScenarioIdle
    /\ SysStarted

Spec == Init /\ [][Next]_vars

\* the commands that change one setting
SetCommandTypes ==
    {"CMD_TYPE_SET_PH_SETPOINT", "CMD_TYPE_SET_ORP_SETPOINT",
     "CMD_TYPE_SET_PH_DOSING_ENABLED", "CMD_TYPE_SET_ORP_DOSING_ENABLED",
     "CMD_TYPE_SET_CALCIUM_HARDNESS", "CMD_TYPE_SET_CYANURIC_ACID",
     "CMD_TYPE_SET_ALKALINITY"}

\* the commands that carry the new value of a writable field
FieldCommandTypes ==
    {"CMD_TYPE_SET_PH_SETPOINT", "CMD_TYPE_SET_ORP_SETPOINT",
     "CMD_TYPE_SET_CALCIUM_HARDNESS", "CMD_TYPE_SET_CYANURIC_ACID",
     "CMD_TYPE_SET_ALKALINITY"}

\* the writable fields as a status payload reports them, the pH set point in
\* hundredths as on the wire
ReportedFields(payload) ==
    [ph_setpoint_100 |-> be16(payload, PAYLOAD_PH_SETPOINT),
     orp_setpoint |-> be16(payload, PAYLOAD_ORP_SETPOINT),
     ph_tank_level |-> At(payload, PAYLOAD_PH_TANK_LEVEL),
     orp_tank_level |-> At(payload, PAYLOAD_ORP_TANK_LEVEL),
     calcium_hardness |-> be16(payload, PAYLOAD_CALCIUM),
     cyanuric_acid |-> At(payload, PAYLOAD_CYA),
     alkalinity |-> be16(payload, PAYLOAD_ALKALINITY)]

\* the reported fields with the field of the command replaced by its value
CommandedFields(fields, cmd) ==
    CASE cmd.type = "CMD_TYPE_SET_PH_SETPOINT" ->
             [fields EXCEPT !.ph_setpoint_100 = cmd.value \div 10]
      [] cmd.type = "CMD_TYPE_SET_ORP_SETPOINT" -> [fields EXCEPT !.orp_setpoint = cmd.value]
      [] cmd.type = "CMD_TYPE_SET_CALCIUM_HARDNESS" ->
             [fields EXCEPT !.calcium_hardness = cmd.value]
      [] cmd.type = "CMD_TYPE_SET_CYANURIC_ACID" -> [fields EXCEPT !.cyanuric_acid = cmd.value]
      [] cmd.type = "CMD_TYPE_SET_ALKALINITY" -> [fields EXCEPT !.alkalinity = cmd.value]
      [] OTHER -> fields

\* the writable fields that a config payload carries (layout of
\* command_build_config_payload)
ConfigFields(payload) ==
    [ph_setpoint_100 |-> be16(payload, 0),
     orp_setpoint |-> be16(payload, 2),
     ph_tank_level |-> At(payload, 4),
     orp_tank_level |-> At(payload, 5),
     calcium_hardness |-> be16(payload, 6),
     cyanuric_acid |-> At(payload, 9),
     alkalinity |-> (At(payload, 10) * 256 + At(payload, 12)) % U16]

\* C2: for every single-field set command that the poller processes (a status
\* record having been received), one config frame is transmitted, and it
\* carries the commanded value in the changed field and in every other
\* writable field the value of the most recent status record.
C2_ConfigFrameKeepsReportedFields ==
    LET c == hist.last_cmd IN
    (c.seen /\ c.cmd.type \in FieldCommandTypes /\ Len(c.reported) > 0) =>
        /\ Len(c.tx_after) = Len(c.tx_before) + 1
        /\ LET frame == c.tx_after[Len(c.tx_after)] IN
              /\ message_validate_structure(frame)
              /\ message_validate_checksum(frame)
              /\ message_get_action(frame) = ACTION_CONFIG_COMMAND
              /\ message_get_payload_len(frame) = CONFIG_PAYLOAD_LENGTH
              /\ ConfigFields(message_get_payload(frame))
                     = CommandedFields(ReportedFields(c.reported), c.cmd)

\* the last-settings with the one field of the command changed (a dosing
\* command sets the tank level to 7 on enable and to 0 on disable)
SettingsWithCommand(settings, cmd) ==
    CASE cmd.type = "CMD_TYPE_SET_PH_SETPOINT" -> [settings EXCEPT !.ph_setpoint = cmd.value]
      [] cmd.type = "CMD_TYPE_SET_ORP_SETPOINT" -> [settings EXCEPT !.orp_setpoint = cmd.value]
      [] cmd.type = "CMD_TYPE_SET_PH_DOSING_ENABLED" ->
             [settings EXCEPT !.ph_tank_level = IF cmd.value THEN 7 ELSE 0]
      [] cmd.type = "CMD_TYPE_SET_ORP_DOSING_ENABLED" ->
             [settings EXCEPT !.orp_tank_level = IF cmd.value THEN 7 ELSE 0]
      [] cmd.type = "CMD_TYPE_SET_CALCIUM_HARDNESS" ->
             [settings EXCEPT !.calcium_hardness = cmd.value]
      [] cmd.type = "CMD_TYPE_SET_CYANURIC_ACID" -> [settings EXCEPT !.cyanuric_acid = cmd.value]
      [] cmd.type = "CMD_TYPE_SET_ALKALINITY" -> [settings EXCEPT !.alkalinity = cmd.value]
      [] OTHER -> settings

\* C3: every set command that the poller dequeues is followed by the
\* transmission of one action-146 config frame built from the last-settings
\* with that field changed, or, when the encoder fails, by no transmission and
\* the error counter incremented by one.
C3_SetCommandSendsConfigOrCountsError ==
    LET c == hist.last_cmd
        settings == SettingsWithCommand(command_settings_from_state(c.settings), c.cmd)
        frame == command_build_config(MAX_PACKET_SIZE, CONFIG_INTELLICHEM_ADDRESS, settings)
    IN
    (c.seen /\ c.cmd.type \in SetCommandTypes) =>
        IF Len(frame) > 0
        THEN c.tx_after = Append(c.tx_before, frame) /\ c.errors_after = c.errors_before
        ELSE c.tx_after = c.tx_before /\ c.errors_after = c.errors_before + 1

PollerStep ==
    \/ SerialTaskEntry
    \/ SerialProcessUartData(<<>>)
    \/ SerialUartNone
    \/ SerialTakeCommand
    \/ SerialCommandsDone
    \/ SerialNoPoll

\* C9: a status record decoded while the state queue is full is dropped: the
\* queued snapshots stay as they are, and the poller is not blocked (its next
\* step is enabled).
C9_FullStateQueueDropsUpdate ==
    \A i \in 1..Len(hist.rx_log) :
        LET e == hist.rx_log[i] IN
        (e.parsed /\ Len(e.queue_before) = QUEUE_LENGTH) =>
            /\ e.queue_after = e.queue_before
            /\ ENABLED PollerStep

\* the fifth and sixth status records met a full queue, were dropped and still
\* became s_last_state
C9_Witness ==
    /\ s_responses_received = 6
    /\ Len(s_state_queue) = QUEUE_LENGTH
    /\ Len(hist.rx_log) = 2
    /\ \A i \in 1..2 :
          /\ hist.rx_log[i].parsed
          /\ Len(hist.rx_log[i].queue_before) = QUEUE_LENGTH
          /\ hist.rx_log[i].queue_after = s_state_queue
    /\ s_last_state = hist.rx_log[2].last_after
    /\ s_last_state # s_state_queue[QUEUE_LENGTH]

RECURSIVE IsSubSeq(_, _)
\* a is b with some elements left out
IsSubSeq(a, b) ==
    IF Len(a) = 0 THEN TRUE
    ELSE IF Len(b) = 0 THEN FALSE
    ELSE IF Head(a) = Head(b) THEN IsSubSeq(Tail(a), Tail(b))
    ELSE IsSubSeq(a, Tail(b))

RECURSIVE PublishedStates(_)
PublishedStates(log) ==
    IF Len(log) = 0 THEN <<>>
    ELSE IF Head(log).kind = "state" THEN <<Head(log).body>> \o PublishedStates(Tail(log))
    ELSE PublishedStates(Tail(log))

\* C10: what each queue accepted is what it delivered, in the same order,
\* followed by what it still holds; the snapshots published are delivered ones,
\* in that order; and a snapshot or command is refused only by a full queue.
C10_QueuesAreFifo ==
    /\ hist.st_sent = hist.st_taken \o s_state_queue
    /\ hist.cmd_sent = hist.cmd_taken \o s_command_queue
    /\ IsSubSeq(PublishedStates(pub_log), hist.st_taken)
    /\ \A i \in 1..Len(hist.rx_log) :
          (hist.rx_log[i].parsed /\ hist.rx_log[i].queue_after = hist.rx_log[i].queue_before)
              => Len(hist.rx_log[i].queue_before) = QUEUE_LENGTH
    /\ (hist.last_msg.seen /\ hist.last_msg.parsed
            /\ hist.last_msg.queue_after = hist.last_msg.queue_before)
          => Len(hist.last_msg.queue_before) = QUEUE_LENGTH

\* two different snapshots were published and two different commands were
\* processed, each pair in the order of its acceptance
C10_Witness ==
    /\ Len(hist.st_taken) = 2
    /\ hist.st_taken[1] # hist.st_taken[2]
    /\ PublishedStates(pub_log) = hist.st_taken
    /\ hist.st_sent = hist.st_taken
    /\ Len(hist.cmd_taken) = 2
    /\ hist.cmd_taken[1] # hist.cmd_taken[2]
    /\ hist.cmd_sent = hist.cmd_taken

----------------------------------------------------------------------------
(* Specification SpecCmd: the command path.  The broker is connected, the  *)
(* poller is in its command loop; broker messages of many kinds arrive and *)
(* the poller takes the queued commands.                                   *)

CmdMessages ==
    { [topic |-> <<"intellichem2mqtt", "intellichem", "set", "ph_setpoint">>, data |-> <<"9", ".", "9">>],
      [topic |-> <<"intellichem2mqtt", "intellichem", "set", "ph_setpoint">>, data |-> <<"7", ".", "2">>],
      [topic |-> <<"intellichem2mqtt", "intellichem", "set", "ph_setpoint">>, data |-> <<"7", ".", "6", "1">>],
      [topic |-> <<"intellichem2mqtt", "intellichem", "set", "ph_setpoint">>, data |-> <<"6", ".", "9", "9">>],
      [topic |-> <<"intellichem2mqtt", "intellichem", "set", "ph_setpoint">>, data |-> <<"a", "b", "c">>],
      [topic |-> <<"intellichem2mqtt", "intellichem", "set", "ph_setpoint">>, data |-> <<>>],
      [topic |-> <<"intellichem2mqtt", "intellichem", "set", "orp_setpoint">>, data |-> <<"7", "0", "0">>],
      [topic |-> <<"intellichem2mqtt", "intellichem", "set", "orp_setpoint">>, data |-> <<"6", "6", "0", "3", "6">>],
      [topic |-> <<"intellichem2mqtt", "intellichem", "set", "orp_setpoint">>, data |-> <<"3", "9", "9">>],
      [topic |-> <<"intellichem2mqtt", "intellichem", "set", "orp_setpoint">>, data |-> <<"8", "0", "1">>],
      [topic |-> <<"intellichem2mqtt", "intellichem", "set", "orp_setpoint">>, data |-> <<"-", "6", "5", "0", "3", "6">>],
      [topic |-> <<"intellichem2mqtt", "intellichem", "set", "ph_dosing_enabled">>, data |-> <<"O", "N">>],
      [topic |-> <<"intellichem2mqtt", "intellichem", "set", "ph_dosing_enabled">>, data |-> <<"O", "F", "F">>],
      [topic |-> <<"intellichem2mqtt", "intellichem", "set", "ph_dosing_enabled">>, data |-> <<"t", "r", "u", "e">>],
      [topic |-> <<"intellichem2mqtt", "intellichem", "set", "ph_dosing_enabled">>, data |-> <<"0">>],
      [topic |-> <<"intellichem2mqtt", "intellichem", "set", "ph_dosing_enabled">>, data |-> <<"g", "a", "r", "b", "a", "g", "e">>],
      [topic |-> <<"intellichem2mqtt", "intellichem", "set", "ph_dosing_enabled">>, data |-> <<"y", "e", "s">>],
      [topic |-> <<"intellichem2mqtt", "intellichem", "set", "orp_dosing_enabled">>, data |-> <<"o", "n">>],
      [topic |-> <<"intellichem2mqtt", "intellichem", "set", "orp_dosing_enabled">>, data |-> <<"F", "a", "l", "s", "e">>],
      [topic |-> <<"intellichem2mqtt", "intellichem", "set", "orp_dosing_enabled">>, data |-> <<"1">>],
      [topic |-> <<"intellichem2mqtt", "intellichem", "set", "orp_dosing_enabled">>, data |-> <<"m", "a", "y", "b", "e">>],
      [topic |-> <<"intellichem2mqtt", "intellichem", "set", "calcium_hardness">>, data |-> <<"3", "0", "0">>],
      [topic |-> <<"intellichem2mqtt", "intellichem", "set", "calcium_hardness">>, data |-> <<"2", "4">>],
      [topic |-> <<"intellichem2mqtt", "intellichem", "set", "calcium_hardness">>, data |-> <<"8", "0", "1">>],
      [topic |-> <<"intellichem2mqtt", "intellichem", "set", "calcium_hardness">>, data |-> <<"6", "5", "5", "6", "1">>],
      [topic |-> <<"intellichem2mqtt", "intellichem", "set", "cyanuric_acid">>, data |-> <<"5", "0">>],
      [topic |-> <<"intellichem2mqtt", "intellichem", "set", "cyanuric_acid">>, data |-> <<"2", "1", "0">>],
      [topic |-> <<"intellichem2mqtt", "intellichem", "set", "cyanuric_acid">>, data |-> <<"2", "1", "1">>],
      [topic |-> <<"intellichem2mqtt", "intellichem", "set", "cyanuric_acid">>, data |-> <<"2", "5", "6">>],
      [topic |-> <<"intellichem2mqtt", "intellichem", "set", "cyanuric_acid">>, data |-> <<"-", "1">>],
      [topic |-> <<"intellichem2mqtt", "intellichem", "set", "alkalinity">>, data |-> <<"1", "0", "0">>],
      [topic |-> <<"intellichem2mqtt", "intellichem", "set", "alkalinity">>, data |-> <<"9", "0", "0">>],
      [topic |-> <<"intellichem2mqtt", "intellichem", "set", "alkalinity">>, data |-> <<"6", "5", "6", "3", "6">>],
      [topic |-> <<"intellichem2mqtt", "intellichem", "set", "reboot">>, data |-> <<"1">>],
      [topic |-> <<"ph_setpoint">>, data |-> <<"7", ".", "2">>] }

\* the state after SerialTaskEntry, MqttEventConnected and a turn of the task
\* loop without bus traffic
InitCmd ==
    /\ s_rx_buffer = buffer_init
    /\ packet = <<>>
    /\ got_packet = FALSE
    /\ n_adds = 0
    /\ sc = ScenarioIdle
    /\ s_state_queue = <<>>
    /\ s_command_queue = <<>>
    /\ s_last_state = intellichem_state_init
    /\ s_current_settings = intellichem_state_init
    /\ s_polls_sent = send_status_request(0, <<>>).polls_sent
    /\ s_responses_received = 0
    /\ s_errors = 0
    /\ serial_pc = "cmds"
    /\ tx_wire = send_status_request(0, <<>>).tx
    /\ s_mqtt_connected = TRUE
    /\ s_discovery_sent = TRUE
    /\ s_states_published = 0
    /\ s_reconnections = 0
    /\ pub_log = <<[kind |-> "availability", body |-> "online"],
                   [kind |-> "discovery", body |-> "all"]>>
    /\ n_msgs = 0
    /\ n_events = 0
    /\ hist = HistInit
    /\ TasksStarted

NextCmd ==
    \/ n_msgs < MaxMsgs /\ \E m \in CmdMessages : MqttEventData(m.topic, m.data)
    \/ SerialTakeCommand

SpecCmd == InitCmd /\ [][NextCmd]_vars

\* the name of the command of a topic: what follows its last '/'
CommandName(topic) == IF Len(topic) >= 2 THEN topic[Len(topic)] ELSE ""

\* the payload is a decimal number: an optional '-', digits, at most one '.'
IsDecimalNumber(data) ==
    LET body == IF Len(data) > 0 /\ data[1] = "-" THEN Tail(data) ELSE data
    IN  /\ \E i \in 1..Len(body) : IsDigit(body[i])
        /\ \A i \in 1..Len(body) : IsDigit(body[i]) \/ body[i] = "."
        /\ Cardinality({i \in 1..Len(body) : body[i] = "."}) <= 1

\* the payload is a decimal integer: an optional '-' and digits
IsDecimalInteger(data) ==
    LET body == IF Len(data) > 0 /\ data[1] = "-" THEN Tail(data) ELSE data
    IN  /\ Len(body) > 0
        /\ \A i \in 1..Len(body) : IsDigit(body[i])

\* C4: a broker message on the ph_setpoint subtopic whose payload is a number
\* out of range (such as "9.9") is dropped: the command queue stays as it was
\* and one statistics counter, the parse-error counter, goes up by one.
C4_OutOfRangePhDroppedAndCounted ==
    LET m == hist.last_msg IN
    (/\ m.seen
     /\ CommandName(m.topic) = "ph_setpoint"
     /\ IsDecimalNumber(m.data)
     /\ ~(strtof(m.data) >= PH_SETPOINT_MIN /\ strtof(m.data) <= PH_SETPOINT_MAX)) =>
        /\ m.queue_after = m.queue_before
        /\ \E i \in 1..Len(m.counters_before) :
              m.counters_after[i] = m.counters_before[i] + 1

Chars_OFF == <<"O", "F", "F">>
Chars_false == <<"f", "a", "l", "s", "e">>
Chars_0 == <<"0">>

\* the payload is one of ON, OFF, true, false, 1, 0, in any case
IsDosingWord(data) ==
    \E w \in {Chars_ON, Chars_OFF, Chars_true, Chars_false, Chars_1, Chars_0} :
        strcasecmp_eq(data, w)

\* C5: a broker message on the ph_dosing_enabled or orp_dosing_enabled subtopic
\* whose payload is not one of ON, OFF, true, false, 1, 0 is a parse failure,
\* and nothing is placed on the command queue for it.
C5_UnknownDosingWordDiscarded ==
    LET m == hist.last_msg IN
    (/\ m.seen
     /\ CommandName(m.topic) \in {"ph_dosing_enabled", "orp_dosing_enabled"}
     /\ ~IsDosingWord(m.data)) =>
        /\ ~m.parsed
        /\ m.queue_after = m.queue_before

\* the range of an integer command
IntegerRange ==
    [orp_setpoint |-> ORP_SETPOINT_MIN..ORP_SETPOINT_MAX,
     calcium_hardness |-> CALCIUM_HARDNESS_MIN..CALCIUM_HARDNESS_MAX,
     cyanuric_acid |-> 0..CYANURIC_ACID_MAX,
     alkalinity |-> ALKALINITY_MIN..ALKALINITY_MAX]

\* C6: a message for orp_setpoint, calcium_hardness, cyanuric_acid or alkalinity
\* whose payload is a decimal integer outside the range of the command is
\* discarded, whatever the size of the integer.
C6_OutOfRangeIntegerDiscarded ==
    LET m == hist.last_msg IN
    (/\ m.seen
     /\ CommandName(m.topic) \in DOMAIN IntegerRange
     /\ IsDecimalInteger(m.data)
     /\ atoi(m.data) \notin IntegerRange[CommandName(m.topic)]) =>
        /\ ~m.parsed
        /\ m.queue_after = m.queue_before

\* the command types of the set commands with a numeric value, and the
\* range of each (pH in thousandths)
SetCommandRange ==
    [CMD_TYPE_SET_PH_SETPOINT |-> 7000..7600,
     CMD_TYPE_SET_ORP_SETPOINT |-> 400..800,
     CMD_TYPE_SET_CALCIUM_HARDNESS |-> 25..800,
     CMD_TYPE_SET_CYANURIC_ACID |-> 0..210,
     CMD_TYPE_SET_ALKALINITY |-> 25..800]

\* the command names that parse_mqtt_command knows
KnownCommandNames ==
    {"ph_setpoint", "orp_setpoint", "ph_dosing_enabled", "orp_dosing_enabled",
     "calcium_hardness", "cyanuric_acid", "alkalinity"}

\* C40: every set command that mqtt_event_handler has placed on the command
\* queue carries a typed value inside its range (ph_setpoint 7.0..7.6,
\* orp_setpoint 400..800, calcium_hardness 25..800, cyanuric_acid 0..210,
\* alkalinity 25..800), and a broker message with an unknown command name
\* leaves the command queue as it was.
C40_QueuedCommandsInRange ==
    /\ \A i \in 1..Len(hist.cmd_sent) :
          LET c == hist.cmd_sent[i] IN
          /\ c.type \in DOMAIN SetCommandRange => c.value \in SetCommandRange[c.type]
          /\ c.type \in DOMAIN SetCommandRange
                \cup {"CMD_TYPE_SET_PH_DOSING_ENABLED", "CMD_TYPE_SET_ORP_DOSING_ENABLED"}
          /\ c.type \notin DOMAIN SetCommandRange => c.value \in BOOLEAN
    /\ hist.cmd_sent = hist.cmd_taken \o s_command_queue
    /\ (hist.last_msg.seen /\ CommandName(hist.last_msg.topic) \notin KnownCommandNames) =>
          /\ ~hist.last_msg.parsed
          /\ hist.last_msg.queue_after = hist.last_msg.queue_before

\* an alkalinity of 100 was queued, then the payload 900 on the same subtopic
\* was refused, or a payload that wraps into the range ("66036", 500 as
\* uint16_t) was queued and the unknown command name reboot was refused
C40_Witness ==
    \/ /\ Len(hist.cmd_sent) = 1
       /\ hist.cmd_sent[1].type = "CMD_TYPE_SET_ALKALINITY"
       /\ hist.cmd_sent[1].value = 100
       /\ hist.last_msg.seen
       /\ hist.last_msg.data = <<"9", "0", "0">>
       /\ CommandName(hist.last_msg.topic) = "alkalinity"
       /\ ~hist.last_msg.parsed
    \/ /\ Len(hist.cmd_sent) = 1
       /\ hist.cmd_sent[1].type = "CMD_TYPE_SET_ORP_SETPOINT"
       /\ hist.cmd_sent[1].value = 500
       /\ hist.last_msg.seen
       /\ CommandName(hist.last_msg.topic) = "reboot"
       /\ ~hist.last_msg.parsed

----------------------------------------------------------------------------
(* The tasks step by step.  serial_task, mqtt_task, the broker client task  *)
(* inside mqtt_event_handler, a task inside serial_task_get_last_state and  *)
(* a task inside serial_task_stop run concurrently; one action is one step  *)
(* of one task between two blocking calls or two accesses to shared data.   *)
(* The ring buffer and the frames it hands out are those of SpecBuf and     *)
(* SpecResync: here buffer_get_packet hands out one of TaskFrames or        *)
(* nothing.                                                                 *)

MaxTaskInputs == 1
MaxApiCalls == 1

\* frames, broker messages, poll timer expiries, line errors and failed writes
TaskInputLeft == n_adds + n_msgs + n_events < MaxTaskInputs

\* rs485.h: CONFIG_RS485_DE_PIN; direction control is on when it is >= 0
CONFIG_RS485_DE_PIN == 19

\* the frames buffer_get_packet hands out: a status response and a frame the
\* decoder rejects
TaskFrames == {StatusFrame, OcpBroadcast}

StatusRequestFrame ==
    message_build(STATUS_REQUEST_BUF_SIZE, CONFIG_INTELLICHEM_ADDRESS,
                  CONTROLLER_ADDRESS, ACTION_STATUS_REQUEST, <<>>)

\* the three calls of send_packet: before the loop, for a queued status
\* request, and at the poll interval
TxSites == {"entry", "cmd", "poll"}

Pc(step, site) == step \o "." \o site

InSendPacket == {Pc(step, site) : step \in {"tx_on", "tx_write", "tx_off"}, site \in TxSites}

\* where serial_task goes on after send_packet returns
tx_return_pc(site) == IF site = "cmd" THEN "cmds" ELSE "loop"

\* the two calls of process_uart_data: in the UART_DATA case and after the switch
RxCalls == {"1", "2"}

rx_return_pc(k) == IF k = "1" THEN "rx2" ELSE "cmds"

\* process_uart_data line 205: the record decoded from the frame held in
\* packet, stamped with the time
PendingState == [parser_parse_status(packet).state EXCEPT !.last_update_ms = now_ms]

Runs(task) == task \notin halted

\* rs485_set_tx_mode / rs485_set_rx_mode: s_tx_mode afterwards
rs485_set_tx_mode(tx_mode) == IF CONFIG_RS485_DE_PIN >= 0 THEN TRUE ELSE tx_mode
rs485_set_rx_mode(tx_mode) == IF CONFIG_RS485_DE_PIN >= 0 THEN FALSE ELSE tx_mode

\* send_packet with the early return on a short write placed before the
\* switch back to receive
send_packet_rx_restored_unless_short(result) == result # "short"

\* send_packet lines 132-136: rs485_set_rx_mode is called whatever the write
\* and the wait returned
send_packet_rx_restored(result) == TRUE

\* the pc after a UART error event, were the task to leave its loop on it
uart_error_next_pc_exit == "cleanup"

\* serial_task lines 312-334: every error case ends in break, the loop goes on
uart_error_next_pc == "rx2"

\* xQueueSend / xSemaphoreTake with portMAX_DELAY: the wait never ends by itself
wait_times_out_never(ticks_ms) == FALSE

\* a blocking FreeRTOS call with a finite timeout returns when it has expired
wait_times_out(ticks_ms) == ticks_ms >= 0

UartErrorEvents == {"UART_FIFO_OVF", "UART_BUFFER_FULL", "UART_PARITY_ERR", "UART_FRAME_ERR"}

\* serial_task lines 278-298: buffer_init, uart_init, rs485_init, the 1 s delay
\* and the first half of send_status_request
TaskEntry ==
    /\ serial_pc = "entry"
    /\ Runs("serial")
    /\ s_rx_buffer' = buffer_init
    /\ s_tx_mode' = rs485_set_rx_mode(s_tx_mode)
    /\ s_polls_sent' = s_polls_sent + 1
    /\ serial_pc' = Pc("tx_on", "entry")
    /\ UNCHANGED <<packet, got_packet, n_adds, sc, s_state_queue, s_command_queue,
                   s_last_state, s_current_settings, s_responses_received, s_errors,
                   tx_wire, s_mqtt_connected, s_discovery_sent, s_states_published,
                   s_reconnections, pub_log, n_msgs, n_events, hist, s_running,
                   s_state_mutex, api, stop_pc, mqtt_pc, cb, halted>>

\* serial_task lines 285-290: uart_init fails, the task clears s_running and ends
TaskEntryFail ==
    /\ serial_pc = "entry"
    /\ Runs("serial")
    /\ TaskInputLeft
    /\ n_events' = n_events + 1
    /\ s_rx_buffer' = buffer_init
    /\ s_running' = FALSE
    /\ serial_pc' = "exited"
    /\ UNCHANGED <<packet, got_packet, n_adds, sc, s_state_queue, s_command_queue,
                   s_last_state, s_current_settings, s_polls_sent, s_responses_received,
                   s_errors, tx_wire, s_mqtt_connected, s_discovery_sent,
                   s_states_published, s_reconnections, pub_log, n_msgs, hist,
                   s_state_mutex, s_tx_mode, api, stop_pc, mqtt_pc, cb, halted>>

\* send_packet lines 122-125: rs485_set_tx_mode and the 1 ms settle delay
TaskTxOn(site) ==
    /\ serial_pc = Pc("tx_on", site)
    /\ Runs("serial")
    /\ s_tx_mode' = rs485_set_tx_mode(s_tx_mode)
    /\ serial_pc' = Pc("tx_write", site)
    /\ UNCHANGED <<s_rx_buffer, packet, got_packet, n_adds, sc, s_state_queue,
                   s_command_queue, s_last_state, s_current_settings, s_polls_sent,
                   s_responses_received, s_errors, tx_wire, s_mqtt_connected,
                   s_discovery_sent, s_states_published, s_reconnections, pub_log, n_msgs,
                   n_events, hist, s_running, s_state_mutex, api, stop_pc, mqtt_pc, cb,
                   halted>>

\* send_packet lines 128-134: uart_write_bytes, uart_wait_tx_done with its
\* 100 ms guard and the 1 ms delay; result is "ok", "short" (fewer bytes
\* written) or "timeout" (TX not complete within the guard time)
TaskTxWrite(site, result) ==
    /\ serial_pc = Pc("tx_write", site)
    /\ Runs("serial")
    /\ wait_times_out(100)
    /\ IF result = "ok" THEN UNCHANGED n_events
       ELSE TaskInputLeft /\ n_events' = n_events + 1
    /\ tx_wire' = Append(tx_wire, IF result = "short"
                                  THEN SubSeq(StatusRequestFrame, 1, 4)
                                  ELSE StatusRequestFrame)
    /\ hist' = [hist EXCEPT !.tx_result = result]
    /\ serial_pc' = Pc("tx_off", site)
    /\ UNCHANGED <<s_rx_buffer, packet, got_packet, n_adds, sc, s_state_queue,
                   s_command_queue, s_last_state, s_current_settings, s_polls_sent,
                   s_responses_received, s_errors, s_mqtt_connected, s_discovery_sent,
                   s_states_published, s_reconnections, pub_log, n_msgs, s_running,
                   s_state_mutex, s_tx_mode, api, stop_pc, mqtt_pc, cb, halted>>

\* send_packet lines 136-147: rs485_set_rx_mode, then the return
TaskTxOff(site) ==
    /\ serial_pc = Pc("tx_off", site)
    /\ Runs("serial")
    /\ s_tx_mode' = IF send_packet_rx_restored(hist.tx_result)
                    THEN rs485_set_rx_mode(s_tx_mode) ELSE s_tx_mode
    /\ serial_pc' = tx_return_pc(site)
    /\ UNCHANGED <<s_rx_buffer, packet, got_packet, n_adds, sc, s_state_queue,
                   s_command_queue, s_last_state, s_current_settings, s_polls_sent,
                   s_responses_received, s_errors, tx_wire, s_mqtt_connected,
                   s_discovery_sent, s_states_published, s_reconnections, pub_log, n_msgs,
                   n_events, hist, s_running, s_state_mutex, api, stop_pc, mqtt_pc, cb,
                   halted>>

\* serial_task line 303: while (s_running)
TaskLoopTest ==
    /\ serial_pc = "loop"
    /\ Runs("serial")
    /\ serial_pc' = IF s_running THEN "event" ELSE "cleanup"
    /\ UNCHANGED <<s_rx_buffer, packet, got_packet, n_adds, sc, s_state_queue,
                   s_command_queue, s_last_state, s_current_settings, s_polls_sent,
                   s_responses_received, s_errors, tx_wire, s_mqtt_connected,
                   s_discovery_sent, s_states_published, s_reconnections, pub_log, n_msgs,
                   n_events, hist, s_running, s_state_mutex, s_tx_mode, api, stop_pc,
                   mqtt_pc, cb, halted>>

\* serial_task lines 362-364: uart_driver_delete and vTaskDelete
TaskCleanup ==
    /\ serial_pc = "cleanup"
    /\ Runs("serial")
    /\ serial_pc' = "exited"
    /\ UNCHANGED <<s_rx_buffer, packet, got_packet, n_adds, sc, s_state_queue,
                   s_command_queue, s_last_state, s_current_settings, s_polls_sent,
                   s_responses_received, s_errors, tx_wire, s_mqtt_connected,
                   s_discovery_sent, s_states_published, s_reconnections, pub_log, n_msgs,
                   n_events, hist, s_running, s_state_mutex, s_tx_mode, api, stop_pc,
                   mqtt_pc, cb, halted>>

\* serial_task lines 306-340: xQueueReceive on the UART event queue returns
\* within 100 ms with no event ("none"), with UART_DATA, or with an event of
\* another type that the switch only logs ("other")
TaskUartEvent(ev) ==
    /\ serial_pc = "event"
    /\ Runs("serial")
    /\ wait_times_out(100)
    /\ serial_pc' = IF ev = "UART_DATA" THEN "rx1" ELSE "rx2"
    /\ UNCHANGED <<s_rx_buffer, packet, got_packet, n_adds, sc, s_state_queue,
                   s_command_queue, s_last_state, s_current_settings, s_polls_sent,
                   s_responses_received, s_errors, tx_wire, s_mqtt_connected,
                   s_discovery_sent, s_states_published, s_reconnections, pub_log, n_msgs,
                   n_events, hist, s_running, s_state_mutex, s_tx_mode, api, stop_pc,
                   mqtt_pc, cb, halted>>

\* serial_task lines 312-334: an error event; overflow and buffer full also
\* flush the driver and clear the ring buffer
TaskUartError(ev) ==
    /\ serial_pc = "event"
    /\ Runs("serial")
    /\ TaskInputLeft
    /\ n_events' = n_events + 1
    /\ s_rx_buffer' = IF ev \in {"UART_FIFO_OVF", "UART_BUFFER_FULL"}
                      THEN buffer_clear(s_rx_buffer) ELSE s_rx_buffer
    /\ s_errors' = s_errors + 1
    /\ serial_pc' = uart_error_next_pc
    /\ UNCHANGED <<packet, got_packet, n_adds, sc, s_state_queue, s_command_queue,
                   s_last_state, s_current_settings, s_polls_sent, s_responses_received,
                   tx_wire, s_mqtt_connected, s_discovery_sent, s_states_published,
                   s_reconnections, pub_log, n_msgs, hist, s_running, s_state_mutex,
                   s_tx_mode, api, stop_pc, mqtt_pc, cb, halted>>

\* process_uart_data lines 194-201: buffer_get_packet hands out nothing and
\* the call returns (frame = <<>>), or hands out a frame that
\* parser_parse_status accepts or rejects
TaskGetPacket(k, frame) ==
    /\ serial_pc = "rx" \o k
    /\ Runs("serial")
    /\ IF frame = <<>>
       THEN /\ serial_pc' = rx_return_pc(k)
            /\ UNCHANGED <<packet, got_packet, n_adds, s_responses_received, s_errors>>
       ELSE /\ TaskInputLeft
            /\ n_adds' = n_adds + 1
            /\ packet' = frame
            /\ got_packet' = TRUE
            /\ IF parser_parse_status(frame).ok
               THEN /\ s_responses_received' = s_responses_received + 1
                    /\ serial_pc' = "take" \o k
                    /\ UNCHANGED s_errors
               ELSE /\ s_errors' = s_errors + 1
                    /\ serial_pc' = "rx" \o k
                    /\ UNCHANGED s_responses_received
    /\ UNCHANGED <<s_rx_buffer, sc, s_state_queue, s_command_queue, s_last_state,
                   s_current_settings, s_polls_sent, tx_wire, s_mqtt_connected,
                   s_discovery_sent, s_states_published, s_reconnections, pub_log, n_msgs,
                   n_events, hist, s_running, s_state_mutex, s_tx_mode, api, stop_pc,
                   mqtt_pc, cb, halted>>

\* process_uart_data line 208: xSemaphoreTake(s_state_mutex, 100 ms) succeeds
TaskMutexTake(k) ==
    /\ serial_pc = "take" \o k
    /\ Runs("serial")
    /\ s_state_mutex.alive
    /\ s_state_mutex.holder = "none"
    /\ s_state_mutex' = [s_state_mutex EXCEPT !.holder = "serial"]
    /\ serial_pc' = "store" \o k
    /\ UNCHANGED <<s_rx_buffer, packet, got_packet, n_adds, sc, s_state_queue,
                   s_command_queue, s_last_state, s_current_settings, s_polls_sent,
                   s_responses_received, s_errors, tx_wire, s_mqtt_connected,
                   s_discovery_sent, s_states_published, s_reconnections, pub_log, n_msgs,
                   n_events, hist, s_running, s_tx_mode, api, stop_pc, mqtt_pc, cb, halted>>

\* process_uart_data line 208: the mutex stays held elsewhere for 100 ms, the
\* take fails and the record is not saved
TaskMutexTimeout(k) ==
    /\ serial_pc = "take" \o k
    /\ Runs("serial")
    /\ s_state_mutex.holder # "none"
    /\ wait_times_out(100)
    /\ serial_pc' = "send" \o k
    /\ UNCHANGED <<s_rx_buffer, packet, got_packet, n_adds, sc, s_state_queue,
                   s_command_queue, s_last_state, s_current_settings, s_polls_sent,
                   s_responses_received, s_errors, tx_wire, s_mqtt_connected,
                   s_discovery_sent, s_states_published, s_reconnections, pub_log, n_msgs,
                   n_events, hist, s_running, s_state_mutex, s_tx_mode, api, stop_pc,
                   mqtt_pc, cb, halted>>

\* process_uart_data lines 209-211: the two memcpy and xSemaphoreGive
TaskStore(k) ==
    /\ serial_pc = "store" \o k
    /\ Runs("serial")
    /\ s_last_state' = PendingState
    /\ s_current_settings' = PendingState
    /\ s_state_mutex' = [s_state_mutex EXCEPT !.holder = "none"]
    /\ serial_pc' = "send" \o k
    /\ UNCHANGED <<s_rx_buffer, packet, got_packet, n_adds, sc, s_state_queue,
                   s_command_queue, s_polls_sent, s_responses_received, s_errors, tx_wire,
                   s_mqtt_connected, s_discovery_sent, s_states_published, s_reconnections,
                   pub_log, n_msgs, n_events, hist, s_running, s_tx_mode, api, stop_pc,
                   mqtt_pc, cb, halted>>

\* process_uart_data lines 214-221: xQueueSend to the state queue with timeout
\* 0, then the next turn of the while loop
TaskStateSend(k) ==
    /\ serial_pc = "send" \o k
    /\ Runs("serial")
    /\ wait_times_out(0)
    /\ s_state_queue' = state_queue_send(s_state_queue, PendingState).queue
    /\ serial_pc' = "rx" \o k
    /\ UNCHANGED <<s_rx_buffer, packet, got_packet, n_adds, sc, s_command_queue,
                   s_last_state, s_current_settings, s_polls_sent, s_responses_received,
                   s_errors, tx_wire, s_mqtt_connected, s_discovery_sent,
                   s_states_published, s_reconnections, pub_log, n_msgs, n_events, hist,
                   s_running, s_state_mutex, s_tx_mode, api, stop_pc, mqtt_pc, cb, halted>>

\* serial_task lines 346-351: xQueueReceive with timeout 0 takes a command;
\* process_command starts a status request for CMD_TYPE_REQUEST_STATUS and
\* only logs the others
TaskTakeCommand ==
    /\ serial_pc = "cmds"
    /\ Runs("serial")
    /\ Len(s_command_queue) > 0
    /\ s_command_queue' = Tail(s_command_queue)
    /\ IF Head(s_command_queue).type = "CMD_TYPE_REQUEST_STATUS"
       THEN /\ s_polls_sent' = s_polls_sent + 1
            /\ serial_pc' = Pc("tx_on", "cmd")
       ELSE UNCHANGED <<s_polls_sent, serial_pc>>
    /\ UNCHANGED <<s_rx_buffer, packet, got_packet, n_adds, sc, s_state_queue,
                   s_last_state, s_current_settings, s_responses_received, s_errors,
                   tx_wire, s_mqtt_connected, s_discovery_sent, s_states_published,
                   s_reconnections, pub_log, n_msgs, n_events, hist, s_running,
                   s_state_mutex, s_tx_mode, api, stop_pc, mqtt_pc, cb, halted>>

\* serial_task line 348: the command queue is empty
TaskCommandsDone ==
    /\ serial_pc = "cmds"
    /\ Runs("serial")
    /\ Len(s_command_queue) = 0
    /\ serial_pc' = "poll"
    /\ UNCHANGED <<s_rx_buffer, packet, got_packet, n_adds, sc, s_state_queue,
                   s_command_queue, s_last_state, s_current_settings, s_polls_sent,
                   s_responses_received, s_errors, tx_wire, s_mqtt_connected,
                   s_discovery_sent, s_states_published, s_reconnections, pub_log, n_msgs,
                   n_events, hist, s_running, s_state_mutex, s_tx_mode, api, stop_pc,
                   mqtt_pc, cb, halted>>

\* serial_task lines 354-358: the poll interval has passed or not
TaskPoll(expired) ==
    /\ serial_pc = "poll"
    /\ Runs("serial")
    /\ IF expired
       THEN /\ TaskInputLeft
            /\ n_events' = n_events + 1
            /\ s_polls_sent' = s_polls_sent + 1
            /\ serial_pc' = Pc("tx_on", "poll")
       ELSE /\ serial_pc' = "loop"
            /\ UNCHANGED <<n_events, s_polls_sent>>
    /\ UNCHANGED <<s_rx_buffer, packet, got_packet, n_adds, sc, s_state_queue,
                   s_command_queue, s_last_state, s_current_settings, s_responses_received,
                   s_errors, tx_wire, s_mqtt_connected, s_discovery_sent,
                   s_states_published, s_reconnections, pub_log, n_msgs, hist, s_running,
                   s_state_mutex, s_tx_mode, api, stop_pc, mqtt_pc, cb, halted>>

\* serial_task_force_poll: a status request is queued when there is room
TaskForcePoll ==
    /\ s_running
    /\ TaskInputLeft
    /\ n_msgs' = n_msgs + 1
    /\ s_command_queue' =
          xQueueSend(s_command_queue, [type |-> "CMD_TYPE_REQUEST_STATUS", value |-> 0]).queue
    /\ UNCHANGED <<s_rx_buffer, packet, got_packet, n_adds, sc, s_state_queue,
                   s_last_state, s_current_settings, s_polls_sent, s_responses_received,
                   s_errors, serial_pc, tx_wire, s_mqtt_connected, s_discovery_sent,
                   s_states_published, s_reconnections, pub_log, n_events, hist, s_running,
                   s_state_mutex, s_tx_mode, api, stop_pc, mqtt_pc, cb, halted>>

\* serial_task_get_last_state lines 446-448: the test of the handle
ApiCall ==
    /\ api.pc \in {"idle", "done"}
    /\ api.calls < MaxApiCalls
    /\ api' = IF s_state_mutex.handle = "NULL"
              THEN [api EXCEPT !.pc = "done", !.ret = FALSE, !.state = <<>>,
                               !.calls = @ + 1]
              ELSE [api EXCEPT !.pc = "take", !.ret = FALSE, !.state = <<>>,
                               !.calls = @ + 1]
    /\ UNCHANGED <<s_rx_buffer, packet, got_packet, n_adds, sc, s_state_queue,
                   s_command_queue, s_last_state, s_current_settings, s_polls_sent,
                   s_responses_received, s_errors, serial_pc, tx_wire, s_mqtt_connected,
                   s_discovery_sent, s_states_published, s_reconnections, pub_log, n_msgs,
                   n_events, hist, s_running, s_state_mutex, s_tx_mode, stop_pc, mqtt_pc,
                   cb, halted>>

\* serial_task_get_last_state line 450: xSemaphoreTake succeeds.  On a
\* semaphore that vSemaphoreDelete has freed the call uses freed memory and
\* may return either value (took = TRUE or FALSE).
ApiTake(took) ==
    /\ api.pc = "take"
    /\ IF s_state_mutex.alive
       THEN /\ took
            /\ s_state_mutex.holder = "none"
            /\ s_state_mutex' = [s_state_mutex EXCEPT !.holder = "api"]
            /\ api' = [api EXCEPT !.pc = "copy"]
       ELSE /\ api' = [api EXCEPT !.pc = IF took THEN "copy" ELSE "done",
                                  !.freed_use = TRUE]
            /\ UNCHANGED s_state_mutex
    /\ UNCHANGED <<s_rx_buffer, packet, got_packet, n_adds, sc, s_state_queue,
                   s_command_queue, s_last_state, s_current_settings, s_polls_sent,
                   s_responses_received, s_errors, serial_pc, tx_wire, s_mqtt_connected,
                   s_discovery_sent, s_states_published, s_reconnections, pub_log, n_msgs,
                   n_events, hist, s_running, s_tx_mode, stop_pc, mqtt_pc, cb, halted>>

\* serial_task_get_last_state line 450: the mutex stays held for 100 ms
ApiTakeTimeout ==
    /\ api.pc = "take"
    /\ s_state_mutex.alive
    /\ s_state_mutex.holder # "none"
    /\ wait_times_out(100)
    /\ api' = [api EXCEPT !.pc = "done", !.ret = FALSE]
    /\ UNCHANGED <<s_rx_buffer, packet, got_packet, n_adds, sc, s_state_queue,
                   s_command_queue, s_last_state, s_current_settings, s_polls_sent,
                   s_responses_received, s_errors, serial_pc, tx_wire, s_mqtt_connected,
                   s_discovery_sent, s_states_published, s_reconnections, pub_log, n_msgs,
                   n_events, hist, s_running, s_state_mutex, s_tx_mode, stop_pc, mqtt_pc,
                   cb, halted>>

\* serial_task_get_last_state lines 451-452: memcpy to the caller and
\* xSemaphoreGive
ApiCopy ==
    /\ api.pc = "copy"
    /\ api' = [api EXCEPT !.pc = "ret", !.state = <<s_last_state>>,
                          !.freed_use = @ \/ ~s_state_mutex.alive]
    /\ s_state_mutex' = IF s_state_mutex.holder = "api"
                        THEN [s_state_mutex EXCEPT !.holder = "none"]
                        ELSE s_state_mutex
    /\ UNCHANGED <<s_rx_buffer, packet, got_packet, n_adds, sc, s_state_queue,
                   s_command_queue, s_last_state, s_current_settings, s_polls_sent,
                   s_responses_received, s_errors, serial_pc, tx_wire, s_mqtt_connected,
                   s_discovery_sent, s_states_published, s_reconnections, pub_log, n_msgs,
                   n_events, hist, s_running, s_tx_mode, stop_pc, mqtt_pc, cb, halted>>

\* serial_task_get_last_state line 453: the return value is read from
\* s_last_state after the mutex was given back
ApiReturn ==
    /\ api.pc = "ret"
    /\ api' = [api EXCEPT !.pc = "done", !.ret = s_last_state.last_update_ms > 0]
    /\ UNCHANGED <<s_rx_buffer, packet, got_packet, n_adds, sc, s_state_queue,
                   s_command_queue, s_last_state, s_current_settings, s_polls_sent,
                   s_responses_received, s_errors, serial_pc, tx_wire, s_mqtt_connected,
                   s_discovery_sent, s_states_published, s_reconnections, pub_log, n_msgs,
                   n_events, hist, s_running, s_state_mutex, s_tx_mode, stop_pc, mqtt_pc,
                   cb, halted>>

\* serial_task_stop lines 421-426: the flag is cleared
StopBegin ==
    /\ stop_pc = "idle"
    /\ s_running
    /\ s_running' = FALSE
    /\ stop_pc' = "delay"
    /\ UNCHANGED <<s_rx_buffer, packet, got_packet, n_adds, sc, s_state_queue,
                   s_command_queue, s_last_state, s_current_settings, s_polls_sent,
                   s_responses_received, s_errors, serial_pc, tx_wire, s_mqtt_connected,
                   s_discovery_sent, s_states_published, s_reconnections, pub_log, n_msgs,
                   n_events, hist, s_state_mutex, s_tx_mode, api, mqtt_pc, cb, halted>>

\* serial_task_stop lines 429-432: after the 500 ms delay, which outlasts a
\* turn of the serial_task loop, vSemaphoreDelete frees the semaphore
StopDelete ==
    /\ stop_pc = "delay"
    /\ serial_pc = "exited"
    /\ s_state_mutex' = IF s_state_mutex.handle # "NULL"
                        THEN [s_state_mutex EXCEPT !.alive = FALSE]
                        ELSE s_state_mutex
    /\ stop_pc' = "clear"
    /\ UNCHANGED <<s_rx_buffer, packet, got_packet, n_adds, sc, s_state_queue,
                   s_command_queue, s_last_state, s_current_settings, s_polls_sent,
                   s_responses_received, s_errors, serial_pc, tx_wire, s_mqtt_connected,
                   s_discovery_sent, s_states_published, s_reconnections, pub_log, n_msgs,
                   n_events, hist, s_running, s_tx_mode, api, mqtt_pc, cb, halted>>

\* serial_task_stop lines 433-436: the handle is set to NULL
StopClear ==
    /\ stop_pc = "clear"
    /\ s_state_mutex' = [s_state_mutex EXCEPT !.handle = "NULL"]
    /\ stop_pc' = "done"
    /\ UNCHANGED <<s_rx_buffer, packet, got_packet, n_adds, sc, s_state_queue,
                   s_command_queue, s_last_state, s_current_settings, s_polls_sent,
                   s_responses_received, s_errors, serial_pc, tx_wire, s_mqtt_connected,
                   s_discovery_sent, s_states_published, s_reconnections, pub_log, n_msgs,
                   n_events, hist, s_running, s_tx_mode, api, mqtt_pc, cb, halted>>

\* mqtt_task.c: STATE_QUEUE_TIMEOUT_MS
STATE_QUEUE_TIMEOUT_MS == 1000

\* mqtt_task line 539: while (s_running)
TaskMqttTop ==
    /\ mqtt_pc = "top"
    /\ Runs("mqtt")
    /\ mqtt_pc' = "recv"
    /\ UNCHANGED <<s_rx_buffer, packet, got_packet, n_adds, sc, s_state_queue,
                   s_command_queue, s_last_state, s_current_settings, s_polls_sent,
                   s_responses_received, s_errors, serial_pc, tx_wire, s_mqtt_connected,
                   s_discovery_sent, s_states_published, s_reconnections, pub_log, n_msgs,
                   n_events, hist, s_running, s_state_mutex, s_tx_mode, api, stop_pc, cb,
                   halted>>

\* mqtt_task lines 541-556: xQueueReceive returns a snapshot, which is
\* published when the broker is connected
TaskMqttReceive ==
    /\ mqtt_pc = "recv"
    /\ Runs("mqtt")
    /\ Len(s_state_queue) > 0
    /\ s_state_queue' = Tail(s_state_queue)
    /\ hist' = [hist EXCEPT !.st_taken = Append(@, Head(s_state_queue))]
    /\ LET p == mqtt_task_publish(s_mqtt_connected, Head(s_state_queue), TRUE, TRUE) IN
          /\ s_states_published' = IF p.counted THEN s_states_published + 1
                                   ELSE s_states_published
          /\ pub_log' = pub_log \o p.msgs
    /\ mqtt_pc' = "top"
    /\ UNCHANGED <<s_rx_buffer, packet, got_packet, n_adds, sc, s_command_queue,
                   s_last_state, s_current_settings, s_polls_sent, s_responses_received,
                   s_errors, serial_pc, tx_wire, s_mqtt_connected, s_discovery_sent,
                   s_reconnections, n_msgs, n_events, s_running, s_state_mutex, s_tx_mode,
                   api, stop_pc, cb, halted>>

\* mqtt_task line 541: no snapshot within STATE_QUEUE_TIMEOUT_MS
TaskMqttReceiveTimeout ==
    /\ mqtt_pc = "recv"
    /\ Runs("mqtt")
    /\ Len(s_state_queue) = 0
    /\ wait_times_out(STATE_QUEUE_TIMEOUT_MS)
    /\ mqtt_pc' = "top"
    /\ UNCHANGED <<s_rx_buffer, packet, got_packet, n_adds, sc, s_state_queue,
                   s_command_queue, s_last_state, s_current_settings, s_polls_sent,
                   s_responses_received, s_errors, serial_pc, tx_wire, s_mqtt_connected,
                   s_discovery_sent, s_states_published, s_reconnections, pub_log, n_msgs,
                   n_events, hist, s_running, s_state_mutex, s_tx_mode, api, stop_pc, cb,
                   halted>>

\* mqtt_event_handler lines 327-338: MQTT_EVENT_DATA, parse_mqtt_command
CbData(topic, data) ==
    /\ cb.pc = "idle"
    /\ s_mqtt_connected
    /\ TaskInputLeft
    /\ n_msgs' = n_msgs + 1
    /\ cb' = IF parse_mqtt_command(topic, data).ok
             THEN [pc |-> "send", cmd |-> parse_mqtt_command(topic, data).cmd]
             ELSE cb
    /\ UNCHANGED <<s_rx_buffer, packet, got_packet, n_adds, sc, s_state_queue,
                   s_command_queue, s_last_state, s_current_settings, s_polls_sent,
                   s_responses_received, s_errors, serial_pc, tx_wire, s_mqtt_connected,
                   s_discovery_sent, s_states_published, s_reconnections, pub_log,
                   n_events, hist, s_running, s_state_mutex, s_tx_mode, api, stop_pc,
                   mqtt_pc, halted>>

\* mqtt_event_handler lines 339-345: xQueueSend(s_command_queue, &cmd, 100 ms)
\* finds room
CbSend ==
    /\ cb.pc = "send"
    /\ Len(s_command_queue) < QUEUE_LENGTH
    /\ s_command_queue' = xQueueSend(s_command_queue, cb.cmd).queue
    /\ cb' = CbIdle
    /\ UNCHANGED <<s_rx_buffer, packet, got_packet, n_adds, sc, s_state_queue,
                   s_last_state, s_current_settings, s_polls_sent, s_responses_received,
                   s_errors, serial_pc, tx_wire, s_mqtt_connected, s_discovery_sent,
                   s_states_published, s_reconnections, pub_log, n_msgs, n_events, hist,
                   s_running, s_state_mutex, s_tx_mode, api, stop_pc, mqtt_pc, halted>>

\* mqtt_event_handler lines 339-345: the queue stays full for 100 ms and the
\* command is dropped
CbSendTimeout ==
    /\ cb.pc = "send"
    /\ Len(s_command_queue) >= QUEUE_LENGTH
    /\ wait_times_out(100)
    /\ cb' = CbIdle
    /\ UNCHANGED <<s_rx_buffer, packet, got_packet, n_adds, sc, s_state_queue,
                   s_command_queue, s_last_state, s_current_settings, s_polls_sent,
                   s_responses_received, s_errors, serial_pc, tx_wire, s_mqtt_connected,
                   s_discovery_sent, s_states_published, s_reconnections, pub_log, n_msgs,
                   n_events, hist, s_running, s_state_mutex, s_tx_mode, api, stop_pc,
                   mqtt_pc, halted>>

\* commands and snapshots queued earlier and not yet taken
QueuedCommands(n) ==
    [i \in 1..n |-> [type |-> "CMD_TYPE_SET_ORP_SETPOINT", value |-> 700]]
QueuedStates(n) ==
    [i \in 1..n |-> [parser_parse_status(StatusFrame).state EXCEPT !.last_update_ms = 1000]]

\* a running system with the broker connected; the queues are empty or full,
\* and the scheduler runs every task or leaves one of them out for good
InitTasks ==
    /\ s_rx_buffer = buffer_init
    /\ packet = <<>>
    /\ got_packet = FALSE
    /\ n_adds = 0
    /\ sc = ScenarioIdle
    /\ s_state_queue \in {QueuedStates(0), QueuedStates(QUEUE_LENGTH)}
    /\ s_command_queue \in {QueuedCommands(0), QueuedCommands(QUEUE_LENGTH)}
    /\ s_last_state = intellichem_state_init
    /\ s_current_settings = intellichem_state_init
    /\ s_polls_sent = 0
    /\ s_responses_received = 0
    /\ s_errors = 0
    /\ serial_pc = "entry"
    /\ tx_wire = <<>>
    /\ s_mqtt_connected = TRUE
    /\ s_discovery_sent = TRUE
    /\ s_states_published = 0
    /\ s_reconnections = 0
    /\ pub_log = <<[kind |-> "availability", body |-> "online"],
                   [kind |-> "discovery", body |-> "all"]>>
    /\ n_msgs = 0
    /\ n_events = 0
    /\ hist = HistInit
    /\ s_running = TRUE
    /\ s_state_mutex = MutexCreated
    /\ s_tx_mode = FALSE
    /\ api = ApiIdle
    /\ stop_pc = "idle"
    /\ mqtt_pc = "top"
    /\ cb = CbIdle
    /\ halted \in {{}, {"serial"}, {"mqtt"}}

\* the same system with empty queues and every task running
InitLock ==
    /\ s_rx_buffer = buffer_init
    /\ packet = <<>>
    /\ got_packet = FALSE
    /\ n_adds = 0
    /\ sc = ScenarioIdle
    /\ SysStarted

\* a step of serial_task up to and inside its loop
TaskLoopStep ==
    \/ TaskEntry
    \/ \E site \in TxSites : TaskTxOn(site)
    \/ \E site \in TxSites, result \in {"ok", "short", "timeout"} : TaskTxWrite(site, result)
    \/ \E site \in TxSites : TaskTxOff(site)
    \/ TaskLoopTest
    \/ \E ev \in {"none", "UART_DATA", "other"} : TaskUartEvent(ev)
    \/ \E ev \in UartErrorEvents : TaskUartError(ev)
    \/ \E k \in RxCalls, frame \in TaskFrames \cup {<<>>} : TaskGetPacket(k, frame)
    \/ \E k \in RxCalls : TaskMutexTake(k)
    \/ \E k \in RxCalls : TaskMutexTimeout(k)
    \/ \E k \in RxCalls : TaskStore(k)
    \/ \E k \in RxCalls : TaskStateSend(k)
    \/ TaskTakeCommand
    \/ TaskCommandsDone
    \/ \E expired \in BOOLEAN : TaskPoll(expired)

\* any step of serial_task
TaskPollerStep == TaskLoopStep \/ TaskEntryFail \/ TaskCleanup

ApiStep ==
    \/ ApiCall
    \/ \E took \in BOOLEAN : ApiTake(took)
    \/ ApiTakeTimeout
    \/ ApiCopy
    \/ ApiReturn

StopStep == StopBegin \/ StopDelete \/ StopClear

MqttStep == TaskMqttTop \/ TaskMqttReceive \/ TaskMqttReceiveTimeout

CbStep ==
    \/ \E m \in SysMessages : CbData(m.topic, m.data)
    \/ CbSend
    \/ CbSendTimeout

NextTasks ==
    \/ TaskLoopStep
    \/ ApiStep
    \/ MqttStep
    \/ CbStep

NextLock ==
    \/ TaskPollerStep
    \/ TaskForcePoll
    \/ ApiStep
    \/ StopStep

SpecLock == InitLock /\ [][NextLock]_vars

SpecTasks == InitTasks /\ [][NextTasks]_vars

\* FreeRTOS runs every ready task that is not halted: a step of serial_task,
\* of mqtt_task or of the broker client task that stays possible is taken
FairTasks ==
    /\ SpecTasks
    /\ WF_vars(TaskLoopStep)
    /\ WF_vars(MqttStep)
    /\ WF_vars(CbStep)

----------------------------------------------------------------------------
(* Claims about the tasks *)

\* C11: serial_task_get_last_state returns true only if the record it copied
\* to the caller is a decoded status (last_update_ms > 0), under every
\* interleaving with the poller's update of s_last_state; it never returns
\* true together with the initial default record.
C11_TrueOnlyWithDecodedStatus ==
    (api.pc = "done" /\ api.ret /\ ~api.freed_use) =>
        /\ Len(api.state) = 1
        /\ api.state[1].last_update_ms > 0
        /\ api.state[1] # intellichem_state_init

\* C12: the state mutex is not deleted while serial_task or a caller of
\* serial_task_get_last_state can still take, hold or use it (the queues and
\* the broker client are never deleted by serial_task_stop).
C12_NoResourceDeletedInUse ==
    /\ ~api.freed_use
    /\ ~s_state_mutex.alive =>
          /\ s_state_mutex.holder = "none"
          /\ api.pc \notin {"take", "copy"}
          /\ serial_pc \notin {"take1", "take2", "store1", "store2"}

\* C13: neither task is blocked forever by the other.  Every turn of the
\* serial_task loop that has started (the wait for a UART event) comes to its
\* end even if mqtt_task never runs again and the state queue is full; every
\* turn of the mqtt_task loop and every broker callback that has a command to
\* queue comes to its end even if serial_task never takes a command.
C13_NoTaskWaitsForever ==
    /\ (serial_pc = "event") ~> (serial_pc = "loop")
    /\ (mqtt_pc = "recv") ~> (mqtt_pc = "top")
    /\ (cb.pc = "send") ~> (cb.pc = "idle")

\* serial_task has ended a turn in which it decoded a status while mqtt_task
\* is halted and the state queue is full, and the broker callback has ended
\* with the command queue still full
C13_Witness ==
    /\ halted = {"mqtt"}
    /\ Len(s_state_queue) = QUEUE_LENGTH
    /\ s_responses_received > 0
    /\ serial_pc = "loop"
    /\ mqtt_pc = "top"
    /\ cb.pc = "idle"

\* C14: the direction is Rx whenever serial_task is outside send_packet, so
\* no bytes are read or processed while it is not Rx (the reads are in
\* process_uart_data), and every send_packet ends with the direction back in
\* Rx, whether the write succeeded, was short, or the wait for TX-complete
\* ran into its 100 ms guard.
C14_DirectionRxOutsideSend ==
    serial_pc \notin InSendPacket => s_tx_mode = FALSE

\* a send_packet whose write was short has returned and the task is back at
\* the top of its loop with the direction Rx
C14_Witness ==
    /\ hist.tx_result = "short"
    /\ Len(tx_wire) > 0
    /\ serial_pc = "loop"
    /\ s_tx_mode = FALSE

\* C15: serial_task leaves its loop only when the stop flag is set: whatever
\* UART error event, rejected frame or failed transmission came before, the
\* task is in its cleanup or gone only if s_running is false.
C15_PollerLeavesLoopOnlyOnStop ==
    serial_pc \in {"cleanup", "exited"} => s_running = FALSE

\* an error was counted (an error event or a rejected frame), and the task has
\* gone on to the top of its loop with the stop flag clear
C15_Witness ==
    /\ s_errors > 0
    /\ s_running
    /\ serial_pc = "loop"

\* C36: whenever a status frame is decoded, s_last_state and
\* s_current_settings both hold that record by the time process_uart_data
\* offers it to the state queue, under every interleaving with a caller of
\* serial_task_get_last_state that takes the state mutex; s_last_state is never
\* older than a snapshot that is in the state queue.
C36_StoredBeforeOffered ==
    /\ serial_pc \in {"send1", "send2"} =>
          /\ s_last_state = PendingState
          /\ s_current_settings = PendingState
    /\ \A i \in 1..Len(s_state_queue) :
          s_last_state.last_update_ms >= s_state_queue[i].last_update_ms

----------------------------------------------------------------------------
(* Claims about staleness *)

\* serial_task.h: CONFIG_INTELLICHEM_POLL_INTERVAL, in seconds
CONFIG_INTELLICHEM_POLL_INTERVAL == 30

\* serial_task_get_stats: the statistics view handed to the caller
serial_task_get_stats ==
    [polls_sent |-> s_polls_sent, responses_received |-> s_responses_received,
     errors |-> s_errors]

\* C16: when no status frame has been decoded for the staleness threshold (a
\* full poll interval of 30 s, from one poll tick to the next), the statistics
\* view carries a stale flag that is set, and the next snapshot the poller
\* emits has comms_lost true.
C16_StalenessSurfaced ==
    /\ hist.stale =>
          /\ "stale" \in DOMAIN serial_task_get_stats
          /\ serial_task_get_stats["stale"]
    /\ \A i \in 1..Len(hist.stale_emit) : hist.stale_emit[i].comms_lost

----------------------------------------------------------------------------
(* The codec as pure functions: parser_parse_status applied to status      *)
(* frames, command_build_config applied to settings records and followed   *)
(* by the controller's echo in a status frame, and message_build applied   *)
(* to the fields read out of a frame.                                      *)

\* commands.c: command_settings_init (pH in thousandths)
command_settings_init ==
    [ph_setpoint |-> 7200, orp_setpoint |-> 650, ph_tank_level |-> 7, orp_tank_level |-> 7,
     calcium_hardness |-> 300, cyanuric_acid |-> 30, alkalinity |-> 80]

\* bytes at the tank-level offsets 20 and 21 of a status payload
TankBytes == {0, 1, 7, 8, 255}
\* source addresses around INTELLICHEM_ADDRESS_MIN and INTELLICHEM_ADDRESS_MAX
SourceBytes == {143, 144, 158, 159}

StatusPayloadWith(ph_tank, orp_tank) ==
    [i \in 1..STATUS_PAYLOAD_LENGTH |->
        IF i = PAYLOAD_PH_TANK_LEVEL + 1 THEN ph_tank
        ELSE IF i = PAYLOAD_ORP_TANK_LEVEL + 1 THEN orp_tank
        ELSE TestStatusPayload[i]]

\* the words at payload offsets 0, 2, 4 and 6, and the byte at offset 31
LevelWords == {<<724, 700, 720, 650>>, <<0, 0, 0, 0>>, <<65535, 65535, 65535, 65535>>,
               <<1, 256, 258, 513>>, <<256, 1, 513, 258>>}
TemperatureBytes == {0, 82, 255}

StatusPayloadLevels(words, temperature) ==
    << words[1] \div 256, words[1] % 256, words[2] \div 256, words[2] % 256,
       words[3] \div 256, words[3] % 256, words[4] \div 256, words[4] % 256 >>
    \o SubSeq([TestStatusPayload EXCEPT ![PAYLOAD_TEMPERATURE + 1] = temperature],
              9, STATUS_PAYLOAD_LENGTH)

DecodeInputs ==
    { message_build(MAX_PACKET_SIZE, CONTROLLER_ADDRESS, src, ACTION_STATUS_RESPONSE,
                    StatusPayloadWith(a, b)) :
        src \in SourceBytes, a \in TankBytes, b \in TankBytes }
    \cup
    { message_build(MAX_PACKET_SIZE, CONTROLLER_ADDRESS, INTELLICHEM_ADDRESS_MIN,
                    ACTION_STATUS_RESPONSE, StatusPayloadLevels(w, t)) :
        w \in LevelWords, t \in TemperatureBytes }

\* values of each settings field at and around the limits the validators test
PhValues == {6999, 7000, 7200, 7255, 7256, 7600, 7601}
OrpValues == {399, 400, 650, 800, 801}
TankValues == {0, 1, 7, 8}
CalciumValues == {24, 25, 300, 800, 801}
CyaValues == {0, 30, 210, 211}
AlkalinityValues == {24, 25, 80, 800, 801}

\* pH 7.3, ORP 700, tanks 5 and 6, calcium 300, cyanuric acid 30, alkalinity 80
ReferenceSettings ==
    [ph_setpoint |-> 7300, orp_setpoint |-> 700, ph_tank_level |-> 5, orp_tank_level |-> 6,
     calcium_hardness |-> 300, cyanuric_acid |-> 30, alkalinity |-> 80]

SettingsInputs ==
    {ReferenceSettings}
    \cup
    { [command_settings_init EXCEPT !.ph_setpoint = p, !.orp_setpoint = o,
                                    !.ph_tank_level = a, !.orp_tank_level = b] :
        p \in PhValues, o \in OrpValues, a \in TankValues, b \in TankValues }
    \cup
    { [command_settings_init EXCEPT !.calcium_hardness = c, !.cyanuric_acid = y,
                                    !.alkalinity = k] :
        c \in CalciumValues, y \in CyaValues, k \in AlkalinityValues }

\* bytes laid out as a frame: start byte, sub byte, payload, bytes between the
\* payload and the checksum, and the checksum of header and payload plus delta
FrameWith(start, sub, payload, extra, delta) ==
    LET hdr == <<start, sub, CONTROLLER_ADDRESS, 144, ACTION_OCP_BROADCAST, Len(payload)>>
        checksum == (message_calculate_checksum(hdr \o payload, HEADER_LENGTH + Len(payload))
                     + delta) % U16
    IN  <<PREAMBLE_BYTE_1, PREAMBLE_BYTE_2, PREAMBLE_BYTE_3>> \o hdr \o payload \o extra
        \o <<(checksum \div 256) % 256, checksum % 256>>

FrameInputs ==
    { FrameWith(start, sub, payload, extra, delta) :
        start \in {HEADER_START_BYTE, 164}, sub \in {HEADER_SUB_BYTE, 1},
        payload \in {<<>>, <<1>>, <<1, 2>>}, extra \in {<<>>, <<9>>}, delta \in {0, 1} }

\* buffers for message_validate_checksum: the frames above, and frames with
\* their checksum in place that are followed by further bytes, or cut short
ValidateInputs ==
    FrameInputs
    \cup { FrameWith(HEADER_START_BYTE, HEADER_SUB_BYTE, payload, <<>>, delta) \o rest :
             payload \in {<<>>, <<1, 2>>}, delta \in {0, 1},
             rest \in {<<9>>, <<0, 0>>, <<255, 0, 255>>} }
    \cup { FrameWith(HEADER_START_BYTE, HEADER_SUB_BYTE, <<1, 2, 3>>, <<>>, 0),
           SubSeq(FrameWith(HEADER_START_BYTE, HEADER_SUB_BYTE, <<1, 2, 3>>, <<>>, 0), 1, 13),
           SubSeq(FrameWith(HEADER_START_BYTE, HEADER_SUB_BYTE, <<1, 2, 3>>, <<>>, 0), 1, 11) }

\* arguments of message_build: buffer sizes around the 11, 12 and 64 bytes needed,
\* addresses and actions at the ends of a byte, payloads from empty to 255 bytes
BuildArgs ==
    [buf_size : {11, 16, 64, 300}, dest : {0, CONTROLLER_ADDRESS, 144, 255},
     src : {CONTROLLER_ADDRESS, 144, 255}, action : {ACTION_STATUS_REQUEST, 255}]
BuildPayloads == {<<>>, <<1>>, <<255, 0, 255>>, Rep(255, 53), Rep(255, 255)}

CodecIdle ==
    [pc |-> "input", kind |-> "none", frame |-> <<>>, settings |-> command_settings_init,
     args |-> [buf_size |-> 0, dest |-> 0, src |-> 0, action |-> 0],
     decoded |-> [ok |-> FALSE, state |-> intellichem_state_init],
     payload |-> <<>>, built |-> <<>>, valid |-> FALSE]

InitCodec ==
    /\ s_rx_buffer = buffer_init
    /\ packet = <<>>
    /\ got_packet = FALSE
    /\ n_adds = 0
    /\ \/ \E f \in DecodeInputs : sc = [CodecIdle EXCEPT !.kind = "decode", !.frame = f]
       \/ \E s \in SettingsInputs : sc = [CodecIdle EXCEPT !.kind = "encode", !.settings = s]
       \/ \E f \in FrameInputs : sc = [CodecIdle EXCEPT !.kind = "frame", !.frame = f]
       \/ \E f \in ValidateInputs : sc = [CodecIdle EXCEPT !.kind = "validate", !.frame = f]
       \/ \E a \in BuildArgs, p \in BuildPayloads :
             sc = [CodecIdle EXCEPT !.kind = "build", !.args = a, !.payload = p]
    /\ SysStarted

\* parser_parse_status on the frame
CodecDecode ==
    /\ sc.kind = "decode"
    /\ sc.pc = "input"
    /\ sc' = [sc EXCEPT !.pc = "done", !.decoded = parser_parse_status(sc.frame)]
    /\ UNCHANGED <<s_rx_buffer, packet, got_packet, n_adds, sysVars>>

\* command_build_config_payload and command_build_config on the settings record
CodecEncode ==
    /\ sc.kind = "encode"
    /\ sc.pc = "input"
    /\ sc' = [sc EXCEPT !.pc = "encoded",
                        !.payload = command_build_config_payload(sc.settings),
                        !.built = command_build_config(MAX_PACKET_SIZE,
                                                       INTELLICHEM_ADDRESS_MIN, sc.settings)]
    /\ UNCHANGED <<s_rx_buffer, packet, got_packet, n_adds, sysVars>>

\* the status payload of a controller that has taken over the values of the
\* configuration payload cfg: each value at the offset where parser_parse_payload
\* reads it, the tank levels as received (tank_base 0) or on the 1..7 scale of
\* the status frame (tank_base 1)
EchoStatusPayload(cfg, tank_base) ==
    [i \in 1..STATUS_PAYLOAD_LENGTH |->
        IF i = PAYLOAD_PH_SETPOINT + 1 THEN cfg[1]
        ELSE IF i = PAYLOAD_PH_SETPOINT + 2 THEN cfg[2]
        ELSE IF i = PAYLOAD_ORP_SETPOINT + 1 THEN cfg[3]
        ELSE IF i = PAYLOAD_ORP_SETPOINT + 2 THEN cfg[4]
        ELSE IF i = PAYLOAD_PH_TANK_LEVEL + 1 THEN (cfg[5] + tank_base) % U8
        ELSE IF i = PAYLOAD_ORP_TANK_LEVEL + 1 THEN (cfg[6] + tank_base) % U8
        ELSE IF i = PAYLOAD_CALCIUM + 1 THEN cfg[7]
        ELSE IF i = PAYLOAD_CALCIUM + 2 THEN cfg[8]
        ELSE IF i = PAYLOAD_CYA + 1 THEN cfg[10]
        ELSE IF i = PAYLOAD_ALKALINITY + 1 THEN cfg[11]
        ELSE IF i = PAYLOAD_ALKALINITY + 2 THEN cfg[13]
        ELSE TestStatusPayload[i]]

\* the controller answers the accepted command with a status frame that echoes
\* the settings; parser_parse_status on that frame
CodecEcho(tank_base) ==
    /\ sc.kind = "encode"
    /\ sc.pc = "encoded"
    /\ Len(sc.built) > 0
    /\ LET echo == message_build(MAX_PACKET_SIZE, CONTROLLER_ADDRESS,
                                 message_get_dest(sc.built), ACTION_STATUS_RESPONSE,
                                 EchoStatusPayload(message_get_payload(sc.built), tank_base))
       IN  sc' = [sc EXCEPT !.pc = "done", !.frame = echo,
                            !.decoded = parser_parse_status(echo)]
    /\ UNCHANGED <<s_rx_buffer, packet, got_packet, n_adds, sysVars>>

\* message_build on the destination, source, action and payload read out of the frame
CodecRebuild ==
    /\ sc.kind = "frame"
    /\ sc.pc = "input"
    /\ sc' = [sc EXCEPT !.pc = "done",
                        !.built = message_build(MAX_PACKET_SIZE, message_get_dest(sc.frame),
                                                message_get_source(sc.frame),
                                                message_get_action(sc.frame),
                                                message_get_payload(sc.frame))]
    /\ UNCHANGED <<s_rx_buffer, packet, got_packet, n_adds, sysVars>>

\* message_validate_checksum on the buffer
CodecValidate ==
    /\ sc.kind = "validate"
    /\ sc.pc = "input"
    /\ sc' = [sc EXCEPT !.pc = "done", !.valid = message_validate_checksum(sc.frame)]
    /\ UNCHANGED <<s_rx_buffer, packet, got_packet, n_adds, sysVars>>

\* message_build on the arguments and the payload
CodecBuild ==
    /\ sc.kind = "build"
    /\ sc.pc = "input"
    /\ sc' = [sc EXCEPT !.pc = "done",
                        !.built = message_build(sc.args.buf_size, sc.args.dest, sc.args.src,
                                                sc.args.action, sc.payload)]
    /\ UNCHANGED <<s_rx_buffer, packet, got_packet, n_adds, sysVars>>

NextCodec ==
    \/ CodecBuild
    \/ CodecDecode
    \/ CodecEncode
    \/ \E tank_base \in {0, 1} : CodecEcho(tank_base)
    \/ CodecRebuild
    \/ CodecValidate

SpecCodec == InitCodec /\ [][NextCodec]_vars

----------------------------------------------------------------------------
(* Claims about the codec *)

\* C17: every status record decoded from a valid frame has its address in
\* 144..158 and both tank levels at most 6, whatever the payload bytes.
C17_DecodedInDocumentedRanges ==
    (sc.kind = "decode" /\ sc.pc = "done" /\ sc.decoded.ok) =>
        /\ sc.decoded.state.address \in 144..158
        /\ sc.decoded.state.ph.tank_level <= 6
        /\ sc.decoded.state.orp.tank_level <= 6

\* the declared closed ranges of the settings fields (pH in thousandths)
SettingsInRange(s) ==
    /\ s.ph_setpoint \in 7000..7600
    /\ s.orp_setpoint \in 400..800
    /\ s.ph_tank_level \in 0..7
    /\ s.orp_tank_level \in 0..7
    /\ s.calcium_hardness \in 25..800
    /\ s.cyanuric_acid \in 0..210
    /\ s.alkalinity \in 25..800

\* C18: command_build_config_payload and command_build_config return 0 (no
\* bytes) for a settings record if and only if at least one field is outside its
\* declared range, and otherwise return the 21 payload bytes and the 32 frame bytes.
C18_EncoderRejectsIffOutOfRange ==
    (sc.kind = "encode" /\ sc.pc # "input") =>
        IF SettingsInRange(sc.settings)
        THEN Len(sc.payload) = CONFIG_PAYLOAD_LENGTH
             /\ Len(sc.built) = message_total_length(CONFIG_PAYLOAD_LENGTH)
        ELSE sc.payload = <<>> /\ sc.built = <<>>

\* a record with only cyanuric_acid out of range was rejected, by both entry points
C18_Witness ==
    /\ sc.kind = "encode"
    /\ sc.pc = "encoded"
    /\ sc.settings = [command_settings_init EXCEPT !.cyanuric_acid = 211]
    /\ sc.payload = <<>>
    /\ sc.built = <<>>

\* C19: for a settings record the encoder accepted, the decoder applied to the
\* status frame in which the controller echoes the settings yields the record
\* verbatim in the seven writable fields.
C19_EchoYieldsSettings ==
    (sc.kind = "encode" /\ sc.pc = "done") =>
        /\ sc.decoded.ok
        /\ command_settings_from_state(sc.decoded.state) = sc.settings

\* C20: for a frame that passes message_validate_structure and
\* message_validate_checksum, message_build on its destination, source, action
\* and payload gives the frame back byte for byte.
C20_BuildOfValidatedFrameIsFrame ==
    (/\ sc.kind = "frame"
     /\ sc.pc = "done"
     /\ message_validate_structure(sc.frame)
     /\ message_validate_checksum(sc.frame)) => sc.built = sc.frame

\* C21: for every destination, source, action and payload of length N that
\* message_build accepts, the frame has 11+N bytes, passes
\* message_validate_structure and message_validate_checksum, and the extractors
\* give back the destination, source, action, N and the payload.
C21_BuiltFrameValidatesAndExtracts ==
    (sc.kind = "build" /\ sc.pc = "done" /\ sc.built # <<>>) =>
        /\ Len(sc.built) = 11 + Len(sc.payload)
        /\ message_validate_structure(sc.built)
        /\ message_validate_checksum(sc.built)
        /\ message_get_dest(sc.built) = sc.args.dest
        /\ message_get_source(sc.built) = sc.args.src
        /\ message_get_action(sc.built) = sc.args.action
        /\ message_get_payload_len(sc.built) = Len(sc.payload)
        /\ message_get_payload(sc.built) = sc.payload

\* a frame with a payload of 53 bytes built into a buffer of exactly 64 bytes
C21_Witness ==
    /\ sc.kind = "build"
    /\ sc.pc = "done"
    /\ sc.args = [buf_size |-> 64, dest |-> 144, src |-> CONTROLLER_ADDRESS, action |-> 255]
    /\ Len(sc.payload) = 53
    /\ Len(sc.built) = 64

\* C22: the last two bytes of every frame message_build returns, read
\* big-endian, equal the sum of the six header bytes and all payload bytes
\* modulo 2^16.
C22_ChecksumIsSum16 ==
    (sc.kind = "build" /\ sc.pc = "done" /\ sc.built # <<>>) =>
        LET n == Len(sc.built) IN
        sc.built[n - 1] * 256 + sc.built[n] = SumRange(sc.built, 4, n - 2) % 65536

\* a frame whose header and payload bytes sum to 66210, past 2^16
C22_Witness ==
    /\ sc.kind = "build"
    /\ sc.pc = "done"
    /\ sc.args = [buf_size |-> 300, dest |-> 255, src |-> 255, action |-> 255]
    /\ Len(sc.payload) = 255
    /\ SumRange(sc.built, 4, Len(sc.built) - 2) = 66210
    /\ sc.built[Len(sc.built) - 1] = 2
    /\ sc.built[Len(sc.built)] = 162

\* C23 (as stated): the status request built with dest 144, src 16, action 210
\* and an empty payload is FF 00 FF A5 00 90 10 D2 00 01 23.
C23_StatusRequestBytesAsStated ==
    \A i \in 1..Len(tx_wire) :
        message_get_action(tx_wire[i]) = ACTION_STATUS_REQUEST =>
            tx_wire[i] = <<255, 0, 255, 165, 0, 144, 16, 210, 0, 1, 35>>

\* C23 (amended): the status request built with dest 144, src 16, action 210
\* and an empty payload is FF 00 FF A5 00 90 10 D2 00 02 17, the checksum being
\* 0xA5 + 0x90 + 0x10 + 0xD2 = 0x0217.
C23_StatusRequestBytes ==
    \A i \in 1..Len(tx_wire) :
        message_get_action(tx_wire[i]) = ACTION_STATUS_REQUEST =>
            tx_wire[i] = <<255, 0, 255, 165, 0, 144, 16, 210, 0, 2, 23>>

\* the poller has written its first status request to the bus
C23_Witness ==
    /\ s_polls_sent = 1
    /\ tx_wire = <<(<<255, 0, 255, 165, 0, 144, 16, 210, 0, 2, 23>>)>>

\* the big-endian word at offset o (from 0) of the payload of frame f
PayloadWord(f, o) == f[PKT_OFFSET_PAYLOAD + o + 1] * 256 + f[PKT_OFFSET_PAYLOAD + o + 2]

\* C24: for every accepted status frame ph.level is the word at payload offset
\* 0 divided by 100 (here in thousandths: the word times 10), orp.level the word
\* at offset 2, ph.setpoint the word at offset 4 divided by 100, orp.setpoint the
\* word at offset 6 and temperature the byte at offset 31; a payload starting
\* 02 D4 02 BC 02 D0 02 8A gives 7.24, 700, 7.20 and 650.
C24_DecodedLevels ==
    (sc.kind = "decode" /\ sc.pc = "done" /\ sc.decoded.ok) =>
        /\ sc.decoded.state.ph.level = PayloadWord(sc.frame, 0) * 10
        /\ sc.decoded.state.orp.level = PayloadWord(sc.frame, 2)
        /\ sc.decoded.state.ph.setpoint = PayloadWord(sc.frame, 4) * 10
        /\ sc.decoded.state.orp.setpoint = PayloadWord(sc.frame, 6)
        /\ sc.decoded.state.temperature = sc.frame[PKT_OFFSET_PAYLOAD + 31 + 1]
        /\ SubSeq(sc.frame, 10, 17) = <<2, 212, 2, 188, 2, 208, 2, 138>> =>
              /\ sc.decoded.state.ph.level = 7240
              /\ sc.decoded.state.orp.level = 700
              /\ sc.decoded.state.ph.setpoint = 7200
              /\ sc.decoded.state.orp.setpoint = 650

\* the reference frame of run_protocol_tests was decoded
C24_Witness ==
    /\ sc.kind = "decode"
    /\ sc.pc = "done"
    /\ sc.frame = StatusFrame
    /\ sc.decoded.ok
    /\ sc.decoded.state.ph.level = 7240
    /\ sc.decoded.state.orp.level = 700
    /\ sc.decoded.state.temperature = 82

\* ph_setpoint * 100 rounded to the nearest integer: the single-precision product
\* is r / 2^14 (see ph_times_100), rounded here instead of truncated
ph_round_100(t) ==
    (RoundHalfEven(RoundHalfEven(t * 262144, 125) * 25, 32) + 8192) \div 16384

\* C25: for every accepted settings record the 21-byte payload holds
\* round(ph_setpoint * 100) big-endian at bytes 0..1, orp_setpoint at 2..3, the
\* tank levels at 4 and 5, calcium_hardness at 6..7, cyanuric_acid at 9, the
\* alkalinity high byte at 10 and low byte at 12, and zero at 8, 11 and 13..20;
\* the reference record gives 02 DA, 02 BC, 05, 06, 01 2C, 1E, 00, 00, 50.
C25_ConfigPayloadLayout ==
    (sc.kind = "encode" /\ sc.pc # "input" /\ sc.payload # <<>>) =>
        /\ sc.payload =
              << ph_round_100(sc.settings.ph_setpoint) \div 256,
                 ph_round_100(sc.settings.ph_setpoint) % 256,
                 sc.settings.orp_setpoint \div 256, sc.settings.orp_setpoint % 256,
                 sc.settings.ph_tank_level, sc.settings.orp_tank_level,
                 sc.settings.calcium_hardness \div 256, sc.settings.calcium_hardness % 256,
                 0, sc.settings.cyanuric_acid,
                 sc.settings.alkalinity \div 256, 0, sc.settings.alkalinity % 256,
                 0, 0, 0, 0, 0, 0, 0, 0 >>
        /\ sc.settings = ReferenceSettings =>
              sc.payload = <<2, 218, 2, 188, 5, 6, 1, 44, 0, 30, 0, 0, 80,
                             0, 0, 0, 0, 0, 0, 0, 0>>

\* C29: a snapshot dequeued by mqtt_task while the broker is disconnected is
\* skipped: the step publishes nothing, leaves the published counter alone and
\* removes the snapshot from the queue; the counter changes only by one, in a
\* step that dequeues a snapshot while connected and whose publication
\* succeeded (publisher_publish_state returned ESP_OK, which it decides on the
\* per-field messages); and per-field messages are only ever published for the
\* snapshot dequeued in the same step, so a skipped one is not published later.
C29_DisconnectedSnapshotSkipped ==
    [][ /\ (Len(s_state_queue') < Len(s_state_queue) /\ ~s_mqtt_connected) =>
              /\ pub_log' = pub_log
              /\ s_states_published' = s_states_published
              /\ s_state_queue' = Tail(s_state_queue)
        /\ s_states_published' # s_states_published =>
              /\ s_states_published' = s_states_published + 1
              /\ s_mqtt_connected
              /\ Len(s_state_queue) > 0
              /\ s_state_queue' = Tail(s_state_queue)
              /\ PublishedStates(pub_log') =
                    Append(PublishedStates(pub_log), Head(s_state_queue))
        /\ PublishedStates(pub_log') # PublishedStates(pub_log) =>
              /\ s_mqtt_connected
              /\ Len(s_state_queue) > 0
              /\ s_state_queue' = Tail(s_state_queue)
              /\ PublishedStates(pub_log') =
                    Append(PublishedStates(pub_log), Head(s_state_queue))
              /\ s_states_published' = s_states_published + 1
      ]_vars

\* both snapshots of one read have been dequeued while the broker was never
\* connected: nothing published, nothing counted, nothing left on the queue
C29_Witness ==
    /\ ~s_mqtt_connected
    /\ s_reconnections = 0
    /\ ~s_discovery_sent
    /\ Len(hist.st_taken) = 2
    /\ s_state_queue = <<>>
    /\ s_states_published = 0
    /\ pub_log = <<>>

\* the number of publishes of the availability payload `online`
OnlinePublishes(log) ==
    Cardinality({i \in DOMAIN log : log[i] = publisher_publish_availability(TRUE)})

\* C30: the availability payload `online` has been published once for every
\* connect event, reconnects included (the connect events are the disconnects
\* counted in s_reconnections plus the connect of the present connection), and
\* the end of the broker session is always preceded by a publish of `offline`.
C30_OnlineOnConnectOfflineBeforeTeardown ==
    /\ OnlinePublishes(pub_log) = s_reconnections + (IF s_mqtt_connected THEN 1 ELSE 0)
    /\ \A i \in DOMAIN pub_log :
          pub_log[i].kind = "session" =>
             \E j \in 1..(i - 1) : pub_log[j] = publisher_publish_availability(FALSE)
    /\ mqtt_pc = "stopped" => \E i \in DOMAIN pub_log : pub_log[i].kind = "session"

\* a connect, a disconnect, a reconnect and a stop: `online` twice, then
\* `offline`, then the end of the session
C30_Witness ==
    /\ mqtt_pc = "stopped"
    /\ s_reconnections = 1
    /\ pub_log = << publisher_publish_availability(TRUE),
                    [kind |-> "discovery", body |-> "all"],
                    publisher_publish_availability(TRUE),
                    publisher_publish_availability(FALSE),
                    [kind |-> "session", body |-> "stop"] >>

\* C31: every drop caused by a full queue is counted.  A decoded status that
\* the full state queue refused leaves a trace in the poller's counters that an
\* accepted one does not leave (s_responses_received counts every decoded
\* status, queued or not, so the trace would be in another counter), and a
\* parsed command that the full command queue refused changes a counter of
\* the publisher.
C31_QueueDropsCounted ==
    /\ \A i \in 1..Len(hist.rx_log) :
          LET e == hist.rx_log[i] IN
          (e.parsed /\ Len(e.queue_before) = QUEUE_LENGTH /\ e.queue_after = e.queue_before)
             => e.stats_after # <<e.stats_before[1] + 1, e.stats_before[2]>>
    /\ (hist.last_msg.seen /\ hist.last_msg.parsed
          /\ Len(hist.last_msg.queue_before) = QUEUE_LENGTH
          /\ hist.last_msg.queue_after = hist.last_msg.queue_before)
             => hist.last_msg.counters_after # hist.last_msg.counters_before

\* the five statistics of the resynchronizer
BufferStats(buf) ==
    <<buf.stats.packets_received, buf.stats.bytes_received, buf.stats.invalid_checksums,
      buf.stats.buffer_overflows, buf.stats.preamble_syncs>>

\* C32: no step of buffer_add_bytes, buffer_get_packet or buffer_clear makes
\* any of the statistics frames-ok, bytes-in, bad-checksum, overflow and resync
\* smaller; buffer_clear leaves all five as they are.
C32_StatsMonotonic ==
    [][ /\ \A k \in 1..5 : BufferStats(s_rx_buffer')[k] >= BufferStats(s_rx_buffer)[k]
        /\ BufClear => BufferStats(s_rx_buffer') = BufferStats(s_rx_buffer)
      ]_vars

\* the buffer has been flushed after a frame was handed out and an overflow
\* was counted: it is empty and the statistics still stand
C32_Witness ==
    /\ s_rx_buffer.count = 0
    /\ s_rx_buffer.head = 0
    /\ s_rx_buffer.tail = 0
    /\ s_rx_buffer.stats.packets_received = 1
    /\ s_rx_buffer.stats.buffer_overflows = 1
    /\ s_rx_buffer.stats.bytes_received > PACKET_BUFFER_CAPACITY
    /\ got_packet

----------------------------------------------------------------------------
(* Specification SpecPoll: serial_task_force_poll.  Tasks call it at any    *)
(* time, before and after serial_task_stop has cleared s_running; broker    *)
(* messages queue other commands; the poller takes the queued commands.     *)

MaxPollCalls == 6

\* the command that serial_task_force_poll queues
ForcePollCommand == [type |-> "CMD_TYPE_REQUEST_STATUS", value |-> 0]

\* serial_task_force_poll without its test of s_running
serial_task_force_poll_unchecked(running, queue) ==
    LET q == xQueueSend(queue, ForcePollCommand) IN
    IF q.ok THEN [ret |-> "ESP_OK", queue |-> q.queue]
    ELSE [ret |-> "ESP_ERR_TIMEOUT", queue |-> queue]

\* serial_task_force_poll: [ret, queue]; the send waits 100 ms for room, and
\* fails when the poller has taken nothing in that time
serial_task_force_poll(running, queue) ==
    IF ~running THEN [ret |-> "ESP_ERR_INVALID_STATE", queue |-> queue]
    ELSE LET q == xQueueSend(queue, ForcePollCommand) IN
         IF q.ok THEN [ret |-> "ESP_OK", queue |-> q.queue]
         ELSE [ret |-> "ESP_ERR_TIMEOUT", queue |-> queue]

\* a task calls serial_task_force_poll
PollCall ==
    /\ n_msgs' = n_msgs + 1
    /\ LET r == serial_task_force_poll(s_running, s_command_queue) IN
          /\ s_command_queue' = r.queue
          /\ hist' = [hist EXCEPT
                        !.cmd_sent = IF r.ret = "ESP_OK" THEN Append(@, ForcePollCommand)
                                     ELSE @,
                        !.last_poll = [seen |-> TRUE, running |-> s_running, ret |-> r.ret,
                                       queue_before |-> s_command_queue,
                                       queue_after |-> r.queue]]
    /\ UNCHANGED <<bufVars, sc, taskVars, s_state_queue, serialVars, mqttVars, n_events>>

NextPoll ==
    \/ n_msgs < MaxPollCalls /\ PollCall
    \/ n_msgs < MaxPollCalls /\ \E m \in SysMessages : MqttEventData(m.topic, m.data)
    \/ SerialTakeCommand
    \/ StopBegin

SpecPoll == InitCmd /\ [][NextPoll]_vars

\* the call of serial_task_force_poll last made did what C33 says
LastPollAsStated ==
    hist.last_poll.seen =>
        IF hist.last_poll.running /\ Len(hist.last_poll.queue_before) < QUEUE_LENGTH
        THEN /\ hist.last_poll.ret = "ESP_OK"
             /\ hist.last_poll.queue_after =
                   Append(hist.last_poll.queue_before, ForcePollCommand)
        ELSE /\ hist.last_poll.ret # "ESP_OK"
             /\ hist.last_poll.queue_after = hist.last_poll.queue_before

\* C33: serial_task_force_poll called while the poller is running and the
\* command queue has room queues one immediate-poll command and returns
\* ESP_OK; called while the poller is not running, or while the queue stays
\* full, it returns an error and queues nothing; and every immediate-poll
\* command that the poller takes from the queue makes it write exactly one
\* status request (action 210) to the bus and add one to the poll counter.
C33_ForcePollQueuesOnePoll ==
    [][ /\ LastPollAsStated'
        /\ (SerialTakeCommand /\ Head(s_command_queue) = ForcePollCommand) =>
              /\ Len(tx_wire') = Len(tx_wire) + 1
              /\ SubSeq(tx_wire', 1, Len(tx_wire)) = tx_wire
              /\ message_get_action(tx_wire'[Len(tx_wire')]) = ACTION_STATUS_REQUEST
              /\ message_get_payload_len(tx_wire'[Len(tx_wire')]) = 0
              /\ ACTION_STATUS_REQUEST = 210
              /\ s_polls_sent' = s_polls_sent + 1
      ]_vars

\* four commands were queued, a fifth call found the queue full and timed
\* out, and the poller has since taken the first immediate poll and sent its
\* status request
C33_Witness ==
    /\ hist.last_poll.ret = "ESP_ERR_TIMEOUT"
    /\ Len(hist.last_poll.queue_before) = QUEUE_LENGTH
    /\ hist.cmd_taken = <<ForcePollCommand>>
    /\ Len(s_command_queue) = QUEUE_LENGTH - 1
    /\ s_polls_sent = 2
    /\ Len(tx_wire) = 2

\* the checksum stored in a buffer behind the payload that its length byte
\* announces: the two bytes at offsets 9+N and 10+N, high byte first
StoredChecksum(pkt) == BE16(pkt, PREAMBLE_LENGTH + HEADER_LENGTH + At(pkt, PKT_OFFSET_LENGTH))

\* C34: for a buffer of at least 11 bytes whose length byte is N,
\* message_validate_checksum answers valid exactly when the buffer has at least
\* 11+N bytes and the two bytes behind the N payload bytes, high byte first,
\* are the 16-bit sum of the six header bytes and the payload bytes, also for
\* a buffer longer than 11+N.
C34_ValidIffLengthAndStoredChecksum ==
    (sc.kind = "validate" /\ sc.pc = "done" /\ Len(sc.frame) >= MIN_PACKET_SIZE) =>
        (sc.valid <=>
            /\ Len(sc.frame) >= message_total_length(At(sc.frame, PKT_OFFSET_LENGTH))
            /\ StoredChecksum(sc.frame) =
                  SumBytes(SubSeq(sc.frame, PREAMBLE_LENGTH + 1, Len(sc.frame)),
                           HEADER_LENGTH + At(sc.frame, PKT_OFFSET_LENGTH)) % U16)

----------------------------------------------------------------------------
(* Specification SpecStream: a byte stream reaches the resynchronizer cut  *)
(* into pushes at any places; after every push the poller calls            *)
(* buffer_get_packet until it returns false, as process_uart_data does.    *)
(* The scan loop of buffer_get_packet is taken one iteration at a time.    *)

\* the number of places at which a stream is cut
MaxCuts == 3

\* buffer_get_packet line 128, keeping nothing of a buffer without preamble
no_preamble_discard_all(count) == count
\* buffer_get_packet line 128: all but the last two bytes go
no_preamble_discard(count) == count - 2

\* buffer_get_packet line 168, taking a packet for complete from 11 bytes on
packet_complete_early(count, packet_len) == count >= MIN_PACKET_SIZE
\* buffer_get_packet line 168: the whole packet is buffered
packet_complete(count, packet_len) == count >= packet_len

\* buffer_get_packet lines 152 and 161, 199, leaving the byte in the buffer
skip_preamble_none(buf) == buf
\* buffer_get_packet lines 152, 161 and 199: one byte is discarded before the
\* loop goes on
skip_preamble(buf) == buffer_discard(buf, 1)

\* one evaluation of the loop condition of buffer_get_packet and, if it holds,
\* one iteration of the loop body (lines 122-203): again says that the
\* iteration ended in `continue`, otherwise [ok, pkt] is what the function
\* returns
buffer_get_packet_iteration(buf, packet_out_size) ==
    IF buf.count < MIN_PACKET_SIZE
    THEN [again |-> FALSE, buf |-> buf, ok |-> FALSE, pkt |-> <<>>]
    ELSE
      LET preamble_idx == buffer_find_preamble(buf, 0) IN
      IF preamble_idx < 0
      THEN [again |-> FALSE,
            buf |-> IF buf.count > 2
                    THEN buffer_discard(buf, no_preamble_discard(buf.count)) ELSE buf,
            ok |-> FALSE, pkt |-> <<>>]
      ELSE
        LET b1 == IF preamble_idx > 0
                  THEN [buffer_discard(buf, preamble_idx) EXCEPT
                           !.stats.preamble_syncs = @ + 1]
                  ELSE buf
            packet_len == message_total_length(buffer_peek_at(b1, PKT_OFFSET_LENGTH))
        IN
        IF b1.count < MIN_PACKET_SIZE
        THEN [again |-> FALSE, buf |-> b1, ok |-> FALSE, pkt |-> <<>>]
        ELSE IF ~header_start_ok(b1)
        THEN [again |-> TRUE, buf |-> skip_preamble(b1), ok |-> FALSE, pkt |-> <<>>]
        ELSE IF packet_len > MAX_PACKET_SIZE
        THEN [again |-> TRUE, buf |-> skip_preamble(b1), ok |-> FALSE, pkt |-> <<>>]
        ELSE IF ~packet_complete(b1.count, packet_len)
        THEN [again |-> FALSE, buf |-> b1, ok |-> FALSE, pkt |-> <<>>]
        ELSE IF packet_out_size < packet_len
        THEN [again |-> FALSE, buf |-> b1, ok |-> FALSE, pkt |-> <<>>]
        ELSE IF message_validate_checksum(buffer_copy_out(b1, 0, packet_len))
        THEN [again |-> FALSE,
              buf |-> [buffer_discard(b1, packet_len) EXCEPT !.stats.packets_received = @ + 1],
              ok |-> TRUE, pkt |-> buffer_copy_out(b1, 0, packet_len)]
        ELSE [again |-> TRUE,
              buf |-> skip_preamble([b1 EXCEPT !.stats.invalid_checksums = @ + 1]),
              ok |-> FALSE, pkt |-> <<>>]

\* the frames that the drain loop of process_uart_data takes out of a buffer
RECURSIVE DrainedFrames(_)
DrainedFrames(buf) ==
    LET r == buffer_get_packet(buf, MAX_PACKET_SIZE)
    IN  IF r.ok THEN <<r.pkt>> \o DrainedFrames(r.buf) ELSE <<>>

\* the frames of a stream that arrives in one push
StreamFrames(stream) == DrainedFrames(buffer_add_bytes(buffer_init, stream))

\* ten bytes of noise that end in the first byte of a preamble
StreamNoise == <<17, 34, 51, 68, 85, 102, 119, 136, 153, 170, 255>>
\* the first nine bytes of a frame of 31 bytes that never comes
WaitingHeader == <<255, 0, 255, 165, 0, 16, 144, 147, 20>>

Streams ==
    { MinFrame,
      StatusFrame,
      BroadcastFrame \o MinFrame,
      StreamNoise \o SubSeq(MinFrame, 2, 11) \o <<255, 0, 255, 17>> \o BadChecksumFrame
          \o BroadcastFrame \o <<255, 0>>,
      WithChecksumOff(NestedFrame, 1) \o MinFrame,
      WaitingHeader \o MinFrame \o MinFrame \o MinFrame,
      Rep(17, PACKET_BUFFER_CAPACITY - 24) \o MinFrame \o BroadcastFrame }

\* the sizes of a push: every size up to a frame of 64 bytes, a full read of
\* the poller, most of the ring, and whatever is left of the stream
PushSizes(rest) == (1..MAX_PACKET_SIZE) \cup {UART_READ_SIZE, 500, rest}

StreamIdle ==
    [pc |-> "idle", stream |-> <<>>, pos |-> 0, pushes |-> 0, yielded |-> <<>>,
     call |-> buffer_init, iters |-> 0]

InitStream ==
    /\ s_rx_buffer = buffer_init
    /\ packet = <<>>
    /\ got_packet = FALSE
    /\ n_adds = 0
    /\ SysStarted
    /\ \E stream \in Streams : sc = [StreamIdle EXCEPT !.stream = stream]

\* process_uart_data line 188: the next k bytes of the stream are pushed; the
\* first call of buffer_get_packet begins
StreamPush(k) ==
    /\ sc.pc = "idle"
    /\ k > 0
    /\ sc.pos + k <= Len(sc.stream)
    /\ sc.pushes < MaxCuts \/ sc.pos + k = Len(sc.stream)
    /\ s_rx_buffer' = buffer_add_bytes(s_rx_buffer, SubSeq(sc.stream, sc.pos + 1, sc.pos + k))
    /\ sc' = [sc EXCEPT !.pc = "scan", !.pos = @ + k, !.pushes = @ + 1,
                        !.call = s_rx_buffer', !.iters = 0]
    /\ UNCHANGED <<packet, got_packet, n_adds, sysVars>>

\* one iteration of the loop of buffer_get_packet; when the function returns
\* true the drain loop of process_uart_data (line 194) calls it again, when it
\* returns false the drain loop ends
StreamScan ==
    /\ sc.pc = "scan"
    /\ LET r == buffer_get_packet_iteration(s_rx_buffer, MAX_PACKET_SIZE) IN
          /\ s_rx_buffer' = r.buf
          /\ IF r.again
             THEN /\ sc' = [sc EXCEPT !.iters = @ + 1]
                  /\ UNCHANGED <<packet, got_packet>>
             ELSE /\ got_packet' = r.ok
                  /\ packet' = r.pkt
                  /\ sc' = IF r.ok
                           THEN [sc EXCEPT !.yielded = Append(@, r.pkt),
                                           !.call = r.buf, !.iters = 0]
                           ELSE [sc EXCEPT !.pc = "idle", !.iters = @ + 1]
    /\ UNCHANGED <<n_adds, sysVars>>

NextStream ==
    \/ \E k \in PushSizes(Len(sc.stream) - sc.pos) : StreamPush(k)
    \/ StreamScan

SpecStream == InitStream /\ [][NextStream]_vars

\* the buffer starts with the preamble and a 0xA5 header whose length byte N
\* gives a total of at most 64 bytes, of which some are still missing
PartialFrame(buf) ==
    /\ buf.count >= PKT_OFFSET_LENGTH + 1
    /\ PreambleAt(buf, 0)
    /\ buffer_peek_at(buf, PKT_OFFSET_START_BYTE) = HEADER_START_BYTE
    /\ message_total_length(buffer_peek_at(buf, PKT_OFFSET_LENGTH)) <= MAX_PACKET_SIZE
    /\ buf.count < message_total_length(buffer_peek_at(buf, PKT_OFFSET_LENGTH))

\* C35: a call of buffer_get_packet on a buffer that starts with the preamble
\* and a 0xA5 header and holds fewer bytes than the 11+N (at most 64) that the
\* header announces returns no frame and leaves the buffer as it was; and a
\* frame that arrives in pieces is handed out, whole, once its last bytes have
\* been pushed, and not before.
C35_PartialFrameWaits ==
    /\ (sc.pc = "idle" /\ sc.pushes > 0 /\ PartialFrame(sc.call)) =>
          /\ ~got_packet
          /\ s_rx_buffer = sc.call
    /\ (sc.pc = "idle" /\ sc.stream \in {MinFrame, StatusFrame}) =>
          /\ sc.yielded = IF sc.pos = Len(sc.stream) THEN <<sc.stream>> ELSE <<>>
          /\ sc.pos < Len(sc.stream) => Pending(s_rx_buffer) = SubSeq(sc.stream, 1, sc.pos)

\* 20 bytes of the status frame were pushed and buffer_get_packet returned
\* nothing; the other 32 bytes have not arrived
C35_Witness ==
    /\ sc.pc = "idle"
    /\ sc.stream = StatusFrame
    /\ sc.pos = 20
    /\ PartialFrame(sc.call)
    /\ s_rx_buffer.count = 20
    /\ sc.yielded = <<>>

\* C38: buffer_get_packet terminates.  Every iteration of its scan loop that
\* ends in `continue` leaves fewer bytes in the buffer than it found, so that
\* a call makes at most as many iterations as the buffer held bytes and then
\* returns what the whole function computes; and every call that returns a
\* frame leaves fewer bytes as well, so that the drain loop of the poller
\* ends when nothing is pushed.
C38_ScanLoopTerminates ==
    [][ sc.pc = "scan" =>
          /\ sc'.pc = "scan" => s_rx_buffer'.count < s_rx_buffer.count
          /\ sc'.iters <= sc.call.count + 1
          /\ (sc'.pc = "idle" \/ sc'.yielded # sc.yielded) =>
                [buf |-> s_rx_buffer', ok |-> got_packet', pkt |-> packet'] =
                    buffer_get_packet(sc.call, MAX_PACKET_SIZE)
      ]_vars

\* the drain loop has ended on a stream pushed in one piece, after calls whose
\* scan went past noise, a preamble without header and a frame with a wrong
\* checksum
C38_Witness ==
    /\ sc.pc = "idle"
    /\ sc.pos = Len(sc.stream)
    /\ s_rx_buffer.stats.invalid_checksums = 1
    /\ s_rx_buffer.stats.preamble_syncs >= 1
    /\ Len(sc.yielded) = 2
    /\ sc.pushes = 1
    /\ sc.iters >= 1

\* a is the beginning of b
IsPrefix(a, b) == Len(a) <= Len(b) /\ SubSeq(b, 1, Len(a)) = a

\* C39: however a stream of at most 512 bytes is cut into pushes, cuts inside
\* a preamble or a frame included, the frames taken out by draining
\* buffer_get_packet after every push are, once the last byte is in, the
\* frames that the stream gives when it arrives in one push, in that order;
\* before that they are the first of them.
C39_FramesIndependentOfCuts ==
    /\ Len(sc.stream) <= PACKET_BUFFER_CAPACITY
    /\ IsPrefix(sc.yielded, StreamFrames(sc.stream))
    /\ (sc.pc = "idle" /\ sc.pos = Len(sc.stream)) => sc.yielded = StreamFrames(sc.stream)

\* the stream of noise, two good frames and two false starts has arrived in
\* four pushes and both frames were taken out
C39_Witness ==
    /\ sc.pc = "idle"
    /\ sc.pos = Len(sc.stream)
    /\ sc.pushes = MaxCuts + 1
    /\ sc.yielded = <<MinFrame, BroadcastFrame>>
    /\ s_rx_buffer.stats.invalid_checksums = 1
    /\ Pending(s_rx_buffer) = <<255, 0>>

\* C37: after any sequence of buffer_init, buffer_add_bytes, buffer_get_packet
\* and buffer_clear the ring holds between 0 and 512 bytes, its write and read
\* positions are below 512, and the write position is the read position plus
\* the count, modulo 512.
C37_RingWellFormed ==
    /\ s_rx_buffer.count \in 0..PACKET_BUFFER_CAPACITY
    /\ s_rx_buffer.head \in 0..(PACKET_BUFFER_CAPACITY - 1)
    /\ s_rx_buffer.tail \in 0..(PACKET_BUFFER_CAPACITY - 1)
    /\ s_rx_buffer.head = (s_rx_buffer.tail + s_rx_buffer.count) % PACKET_BUFFER_CAPACITY
    /\ Len(s_rx_buffer.data) = PACKET_BUFFER_CAPACITY
    /\ PACKET_BUFFER_CAPACITY = 512

\* the ring has overflowed and wrapped: the bytes it holds run from the read
\* position over the end of the array to the write position
C37_Witness ==
    /\ s_rx_buffer.stats.buffer_overflows >= 1
    /\ s_rx_buffer.head < s_rx_buffer.tail
    /\ s_rx_buffer.count > 0
    /\ s_rx_buffer.count < PACKET_BUFFER_CAPACITY

====
